---- MODULE Spec2Model ----
(***************************************************************************)
(* Model of the basketball-reference scraper library                      *)
(* (scripts/bball_ref_scraper_lib.py), of the box score sink and the date  *)
(* loop of scripts/get_games_data.py and of the award scrapers of          *)
(* scripts/get_monthly_weekly_awards.py with their SQLite store.           *)
(*                                                                         *)
(* Texts that the code inspects character by character (cell texts, score *)
(* texts) are sequences of one-character strings.  Names that the code     *)
(* only copies (team names, player names, URLs) are plain strings.         *)
(* Python's None is the empty tuple, a present value v is <<v>>.           *)
(***************************************************************************)
EXTENDS Integers, Sequences, FiniteSets, TLC

VARIABLES pc, soup, box_score_url, box_result, daily_soup, daily_result,
          month_str, month_result, season_str, month_numeric, year_result,
          week_str, effective_season_start_year, week_result, db, calls, award_table,
          args, total_games_processed, total_players_inserted

vars == <<pc, soup, box_score_url, box_result, daily_soup, daily_result,
          month_str, month_result, season_str, month_numeric, year_result,
          week_str, effective_season_start_year, week_result, db, calls, award_table,
          args, total_games_processed, total_players_inserted>>

(***************************************************************************)
(* Bounds of the model.                                                    *)
(***************************************************************************)
MaxStrong == 3
MaxScores == 3
MaxTables == 2
MaxRows == 2
MaxAnchors == 3
MaxDeliveries == 3
MaxAwardRuns == 2
MaxDays == 3

(***************************************************************************)
(* Python values.                                                          *)
(***************************************************************************)
None == <<>>
Some(v) == <<v>>

NoException == "none"

RECURSIVE SeqsUpTo(_, _)
SeqsUpTo(S, n) ==
    IF n = 0 THEN {<<>>}
    ELSE LET shorter == SeqsUpTo(S, n - 1)
         IN shorter \cup {Append(s, x) : s \in {t \in shorter : Len(t) = n - 1}, x \in S}

(***************************************************************************)
(* str.strip(), int(str) and float(str) of Python, on character sequences. *)
(***************************************************************************)
Whitespace == {" ", "\t", "\n"}

Digits == {"0", "1", "2", "3", "4", "5", "6", "7", "8", "9"}

DigitVal(c) ==
    CASE c = "0" -> 0 [] c = "1" -> 1 [] c = "2" -> 2 [] c = "3" -> 3
      [] c = "4" -> 4 [] c = "5" -> 5 [] c = "6" -> 6 [] c = "7" -> 7
      [] c = "8" -> 8 [] c = "9" -> 9

RECURSIVE LStrip(_)
LStrip(s) == IF s # <<>> /\ Head(s) \in Whitespace THEN LStrip(Tail(s)) ELSE s

RECURSIVE RStrip(_)
RStrip(s) ==
    IF s # <<>> /\ s[Len(s)] \in Whitespace THEN RStrip(SubSeq(s, 1, Len(s) - 1)) ELSE s

Strip(s) == RStrip(LStrip(s))

\* A run of decimal digits in which single underscores may separate digits.
DigitRun(s) ==
    /\ s # <<>>
    /\ s[1] \in Digits
    /\ s[Len(s)] \in Digits
    /\ \A i \in 1..Len(s) : s[i] \in Digits \cup {"_"}
    /\ \A i \in 1..(Len(s) - 1) : ~(s[i] = "_" /\ s[i + 1] = "_")

RECURSIVE DigitRunValue(_, _)
DigitRunValue(s, acc) ==
    IF s = <<>> THEN acc
    ELSE IF Head(s) = "_" THEN DigitRunValue(Tail(s), acc)
    ELSE DigitRunValue(Tail(s), 10 * acc + DigitVal(Head(s)))

RECURSIVE CountDigits(_)
CountDigits(s) ==
    IF s = <<>> THEN 0
    ELSE (IF Head(s) \in Digits THEN 1 ELSE 0) + CountDigits(Tail(s))

HasSign(t) == t # <<>> /\ t[1] \in {"+", "-"}
Unsigned(t) == IF HasSign(t) THEN Tail(t) ELSE t
IsNegative(t) == t # <<>> /\ t[1] = "-"

\* int(s): None stands for ValueError, Some(n) for the integer n.
PyInt(s) ==
    LET t == Strip(s)
        body == Unsigned(t)
    IN IF DigitRun(body)
       THEN Some(IF IsNegative(t) THEN 0 - DigitRunValue(body, 0) ELSE DigitRunValue(body, 0))
       ELSE None

LowerChar(c) ==
    CASE c = "A" -> "a" [] c = "B" -> "b" [] c = "C" -> "c" [] c = "D" -> "d"
      [] c = "E" -> "e" [] c = "F" -> "f" [] c = "G" -> "g" [] c = "H" -> "h"
      [] c = "I" -> "i" [] c = "J" -> "j" [] c = "K" -> "k" [] c = "L" -> "l"
      [] c = "M" -> "m" [] c = "N" -> "n" [] c = "O" -> "o" [] c = "P" -> "p"
      [] c = "Q" -> "q" [] c = "R" -> "r" [] c = "S" -> "s" [] c = "T" -> "t"
      [] c = "U" -> "u" [] c = "V" -> "v" [] c = "W" -> "w" [] c = "X" -> "x"
      [] c = "Y" -> "y" [] c = "Z" -> "z" [] OTHER -> c

Lower(s) == [i \in 1..Len(s) |-> LowerChar(s[i])]

\* Index of the first occurrence of a character of set C in s, 0 when none.
RECURSIVE FindChar(_, _, _)
FindChar(s, C, i) ==
    IF i > Len(s) THEN 0
    ELSE IF s[i] \in C THEN i
    ELSE FindChar(s, C, i + 1)

\* A float is [kind, neg, mant, exp]: the finite value mant * 10^exp (mant
\* without trailing zeros), or an infinity, or a NaN.
RECURSIVE Normalize(_, _)
Normalize(mant, exp) ==
    IF mant = 0 THEN [mant |-> 0, exp |-> 0]
    ELSE IF mant % 10 = 0 THEN Normalize(mant \div 10, exp + 1)
    ELSE [mant |-> mant, exp |-> exp]

Finite(neg, mant, exp) ==
    LET n == Normalize(mant, exp)
    IN [kind |-> "finite", neg |-> neg, mant |-> n.mant, exp |-> n.exp]

Infinite(neg) == [kind |-> "inf", neg |-> neg, mant |-> 0, exp |-> 0]
NaN(neg) == [kind |-> "nan", neg |-> neg, mant |-> 0, exp |-> 0]

\* The mantissa part of a decimal literal: "12", "12.", "12.5" or ".5".
MantissaOK(m) ==
    LET dot == FindChar(m, {"."}, 1)
        ip == IF dot = 0 THEN m ELSE SubSeq(m, 1, dot - 1)
        fp == IF dot = 0 THEN <<>> ELSE SubSeq(m, dot + 1, Len(m))
    IN /\ ip # <<>> \/ fp # <<>>
       /\ ip = <<>> \/ DigitRun(ip)
       /\ fp = <<>> \/ DigitRun(fp)

ExponentOK(e) == DigitRun(Unsigned(e))

\* float(s): None stands for ValueError, Some(f) for the float f.
PyFloat(s) ==
    LET t == Strip(s)
        neg == IsNegative(t)
        body == Lower(Unsigned(t))
        epos == FindChar(body, {"e"}, 1)
        m == IF epos = 0 THEN body ELSE SubSeq(body, 1, epos - 1)
        e == IF epos = 0 THEN <<>> ELSE SubSeq(body, epos + 1, Len(body))
        dot == FindChar(m, {"."}, 1)
        ip == IF dot = 0 THEN m ELSE SubSeq(m, 1, dot - 1)
        fp == IF dot = 0 THEN <<>> ELSE SubSeq(m, dot + 1, Len(m))
        expo == IF epos = 0 THEN 0
                ELSE IF IsNegative(e) THEN 0 - DigitRunValue(Unsigned(e), 0)
                ELSE DigitRunValue(Unsigned(e), 0)
    IN IF body \in {<<"i", "n", "f">>, <<"i", "n", "f", "i", "n", "i", "t", "y">>}
       THEN Some(Infinite(neg))
       ELSE IF body = <<"n", "a", "n">>
       THEN Some(NaN(neg))
       ELSE IF MantissaOK(m) /\ (epos = 0 \/ ExponentOK(e))
       THEN Some(Finite(neg, DigitRunValue(ip \o fp, 0), expo - CountDigits(fp)))
       ELSE None

(***************************************************************************)
(* Diagnostics: one record per logger call.                                *)
(***************************************************************************)
LogEntry(level, msg, stat, player, url) ==
    [level |-> level, msg |-> msg, stat |-> stat, player |-> player, url |-> url]

(***************************************************************************)
(* The player stat line: field names and conversions.                      *)
(***************************************************************************)
IntFields == {"fg", "fga", "fg3", "fg3a", "ft", "fta", "orb", "drb", "trb",
              "ast", "stl", "blk", "tov", "pf", "pts"}

RealFields == {"fg_pct", "fg3_pct", "ft_pct"}

\* The stat keys of player_row_data, in the order the dict literal evaluates them.
FieldOrder == <<"fg", "fga", "fg_pct", "fg3", "fg3a", "fg3_pct", "ft", "fta",
                "ft_pct", "orb", "drb", "trb", "ast", "stl", "blk", "tov", "pf",
                "pts", "plus_minus">>

StatFields == {FieldOrder[i] : i \in 1..Len(FieldOrder)}

RowKeys == {"player_name", "team", "mp"} \cup StatFields

non_playing_statuses ==
    {<<"D", "i", "d", " ", "N", "o", "t", " ", "P", "l", "a", "y">>,
     <<"N", "o", "t", " ", "W", "i", "t", "h", " ", "T", "e", "a", "m">>,
     <<"D", "i", "d", " ", "N", "o", "t", " ", "D", "r", "e", "s", "s">>,
     <<"I", "n", "a", "c", "t", "i", "v", "e">>,
     <<"P", "l", "a", "y", "e", "r", " ", "S", "u", "s", "p", "e", "n", "d", "e", "d">>}

\* "cell.text.strip() if cell and cell.text.strip() else None"
StrippedText(cell) ==
    IF cell = None THEN None
    ELSE IF Strip(cell[1]) = <<>> THEN None
    ELSE Some(Strip(cell[1]))

\* The return value of _get_cell_text and its warning when that is None.
WarnIfNone(text_val, data_stat, player_name_for_log, game_url_for_log) ==
    [val |-> text_val,
     log |-> IF text_val = None
             THEN <<LogEntry("warning", "stat not found", data_stat,
                             player_name_for_log, game_url_for_log)>>
             ELSE <<>>]

\* _get_cell_text: the stripped text of the row's cell, None when the cell is
\* missing or its text strips to nothing; a warning in that case.
GetCellText(element, data_stat, player_name_for_log, game_url_for_log) ==
    WarnIfNone(StrippedText(element.cells[data_stat]), data_stat,
               player_name_for_log, game_url_for_log)

\* No try/except: the ValueError of the conversion propagates.
CaughtValueError_Uncaught(r, type, stat_name, player_name_for_log, game_url_for_log) ==
    IF r = None
    THEN [val |-> None, log |-> <<>>, exc |-> "ValueError"]
    ELSE [val |-> r, log |-> <<>>, exc |-> NoException]

\* The try/except ValueError of _to_int and _to_real around the conversion
\* result r (None: ValueError was raised): a warning naming the type.
CaughtValueError(r, type, stat_name, player_name_for_log, game_url_for_log) ==
    IF r = None
    THEN [val |-> None,
          log |-> <<LogEntry("warning", type, stat_name,
                             player_name_for_log, game_url_for_log)>>,
          exc |-> NoException]
    ELSE [val |-> r, log |-> <<>>, exc |-> NoException]

\* A missing or empty value defaults to 0.
ToInt_ZeroDefault(value, stat_name, player_name_for_log, game_url_for_log) ==
    IF value = None \/ value[1] = <<>>
    THEN [val |-> Some(0), log |-> <<>>, exc |-> NoException]
    ELSE CaughtValueError(PyInt(value[1]), "could not convert to INTEGER", stat_name,
                          player_name_for_log, game_url_for_log)

\* _to_int: int(value) or None; the ValueError is caught and logged.
ToInt(value, stat_name, player_name_for_log, game_url_for_log) ==
    IF value = None \/ value[1] = <<>>
    THEN [val |-> None, log |-> <<>>, exc |-> NoException]
    ELSE CaughtValueError(PyInt(value[1]), "could not convert to INTEGER", stat_name,
                          player_name_for_log, game_url_for_log)

\* _to_real: float(value) or None; the ValueError is caught and logged.
ToReal(value, stat_name, player_name_for_log, game_url_for_log) ==
    IF value = None \/ value[1] = <<>>
    THEN [val |-> None, log |-> <<>>, exc |-> NoException]
    ELSE CaughtValueError(PyFloat(value[1]), "could not convert to REAL", stat_name,
                          player_name_for_log, game_url_for_log)

\* The conversion of a cell text by the field's type (plus_minus stays raw text).
Converted(f, value, player_name, url) ==
    IF f \in IntFields THEN ToInt(value, f, player_name, url)
    ELSE IF f \in RealFields THEN ToReal(value, f, player_name, url)
    ELSE [val |-> value, log |-> <<>>, exc |-> NoException]

\* The diagnostics of _get_cell_text precede those of the conversion.
AfterCellText(g, c) == [val |-> c.val, log |-> g.log \o c.log, exc |-> c.exc]

ConvertedCell(f, g, player_name, url) == AfterCellText(g, Converted(f, g.val, player_name, url))

\* One entry of the player_row_data literal.
FieldResult(row, f, player_name, url) ==
    ConvertedCell(f, GetCellText(row, f, player_name, url), player_name, url)

\* The diagnostics of the literal's entries in evaluation order, up to the
\* first entry that raises.
RECURSIVE FieldEffects(_, _, _)
FieldEffects(fr, i, acc) ==
    IF i > Len(FieldOrder) \/ acc.exc # NoException THEN acc
    ELSE FieldEffects(fr, i + 1,
                      [log |-> acc.log \o fr[FieldOrder[i]].log,
                       exc |-> fr[FieldOrder[i]].exc])

(***************************************************************************)
(* parse_box_score_page.  The loops carry acc: the players list, the        *)
(* diagnostics and a raised exception.                                     *)
(***************************************************************************)
\* Only "not mp_val": the status list is not consulted.
DidNotPlay_MissingOnly(mp_val) == mp_val = None \/ mp_val[1] = <<>>

\* "mp_val in non_playing_statuses or not mp_val"
DidNotPlay(mp_val) == mp_val = None \/ mp_val[1] = <<>> \/ mp_val[1] \in non_playing_statuses

\* The player_row_data literal.
PlayerRowData(player_name, team, mp_val, fr) ==
    [k \in RowKeys |->
        CASE k = "player_name" -> player_name
          [] k = "team" -> team
          [] k = "mp" -> mp_val
          [] OTHER -> fr[k].val]

\* game_data["players"].append(player_row_data), unless an entry raised.
AppendPlayer(acc, mp_log, player_row_data, eff) ==
    IF eff.exc # NoException
    THEN [acc EXCEPT !.log = @ \o mp_log \o eff.log, !.exc = eff.exc]
    ELSE [players |-> Append(acc.players, player_row_data),
          log |-> acc.log \o mp_log \o eff.log,
          exc |-> NoException]

\* Lines 176-200, fr being the evaluated entries of the literal.
PlayedRow(team, acc, player_name, mp, fr) ==
    AppendPlayer(acc, mp.log, PlayerRowData(player_name, team, mp.val[1], fr),
                 FieldEffects(fr, 1, [log |-> <<>>, exc |-> NoException]))

\* Lines 171-200, mp being the result of _get_cell_text for the minutes.
PlayerRow(row, team, url, acc, player_name, mp) ==
    IF DidNotPlay(mp.val)
    THEN [acc EXCEPT !.log =
                @ \o mp.log \o <<LogEntry("debug", "did not play", "mp", player_name, url)>>]
    ELSE PlayedRow(team, acc, player_name, mp,
                   [f \in StatFields |-> FieldResult(row, f, player_name, url)])

\* One iteration of "for row in tbody.find_all('tr')".
ParseRow(row, team, url, acc) ==
    IF row.th = None \/ row.th[1].a = None
    THEN [acc EXCEPT !.log =
                @ \o (IF row.th # None /\ row.th[1].text \notin {"Reserves", "Team Totals"}
                      THEN <<LogEntry("debug", "not a player link row", "", row.th[1].text, url)>>
                      ELSE <<>>)]
    ELSE PlayerRow(row, team, url, acc, row.th[1].a[1],
                   GetCellText(row, "mp", row.th[1].a[1], url))

RECURSIVE ParseRows(_, _, _, _)
ParseRows(rows, team, url, acc) ==
    IF rows = <<>> \/ acc.exc # NoException THEN acc
    ELSE ParseRows(Tail(rows), team, url, ParseRow(Head(rows), team, url, acc))

\* The id filter of find_all('table', id=...): the id, split at its hyphens,
\* starts with "box-" and ends with "-basic".
IsBasicTable(table) ==
    /\ table.id # None
    /\ Len(table.id[1]) >= 2
    /\ table.id[1][1] = "box"
    /\ table.id[1][Len(table.id[1])] = "basic"

\* split('-')[-1] instead of [1]: the last piece of the id is taken as team.
ParseTable_LastIdPart(table, url, acc) ==
    IF Len(table.id[1]) < 2
    THEN [acc EXCEPT !.exc = "IndexError"]
    ELSE IF table.tbody = None
    THEN [acc EXCEPT !.log = @ \o <<LogEntry("warning", "no tbody", "", table.id[1][Len(table.id[1])], url)>>]
    ELSE ParseRows(table.tbody[1], table.id[1][Len(table.id[1])], url, acc)

\* One iteration of "for table in player_stats_tables".
ParseTable(table, url, acc) ==
    IF Len(table.id[1]) < 2
    THEN [acc EXCEPT !.exc = "IndexError"]
    ELSE IF table.tbody = None
    THEN [acc EXCEPT !.log = @ \o <<LogEntry("warning", "no tbody", "", table.id[1][2], url)>>]
    ELSE ParseRows(table.tbody[1], table.id[1][2], url, acc)

RECURSIVE ParseTables(_, _, _)
ParseTables(tables, url, acc) ==
    IF tables = <<>> \/ acc.exc # NoException THEN acc
    ELSE ParseTables(Tail(tables), url, ParseTable(Head(tables), url, acc))

\* [:2] forgotten: every element is kept.
FirstTwo_NoSlice(s) == s

FirstTwo(s) == SubSeq(s, 1, IF Len(s) < 2 THEN Len(s) ELSE 2)

TeamName(team) == IF team.a # None THEN team.a[1] ELSE team.text

TeamNames(teams) == [i \in 1..Len(FirstTwo(teams)) |-> TeamName(teams[i])]

Returned(ret, log) == [exc |-> NoException, ret |-> ret, log |-> log]
Raised(exc, log) == [exc |-> exc, ret |-> None, log |-> log]

\* The try/except ValueError around the two int(...) calls, away and home
\* being their results (None: ValueError was raised).
CaughtScores(away, home) ==
    IF away = None \/ home = None
    THEN [exc |-> NoException, scores |-> None]
    ELSE [exc |-> NoException, scores |-> Some(<<away[1], home[1]>>)]

ParseScores(final_scores_text) ==
    CaughtScores(PyInt(final_scores_text[1]), PyInt(final_scores_text[2]))

BasicTables(s) == SelectSeq(s.tables, IsBasicTable)

\* Home listed first.
GameData_Swapped(team_names, scores, players) ==
    [away_team |-> team_names[2],
     home_team |-> team_names[1],
     away_score |-> scores[2],
     home_score |-> scores[1],
     players |-> players]

\* The returned game_data dict.
GameData(team_names, scores, players) ==
    [away_team |-> team_names[1],
     home_team |-> team_names[2],
     away_score |-> scores[1],
     home_score |-> scores[2],
     players |-> players]

\* Line 202, body being the outcome of the loop over the tables.
GameWithPlayers(team_names, scores, body) ==
    IF body.exc # NoException
    THEN Raised(body.exc, body.log)
    ELSE Returned(Some(GameData(team_names, scores, body.players)), body.log)

\* game_data kept at module level: the players list of the game returned by
\* the call before is appended to.
BeforeTables_SharedGameData(player_stats_tables, url) ==
    [players |-> IF box_result.ret = None THEN <<>> ELSE box_result.ret[1].players,
     log |-> IF player_stats_tables = <<>>
             THEN <<LogEntry("warning", "no basic tables", "", "", url)>>
             ELSE <<>>,
     exc |-> NoException]

\* The state before the loop over the tables (lines 115-119 and 150-152):
\* game_data is a new dict of this call, its players list empty.
BeforeTables(player_stats_tables, url) ==
    [players |-> <<>>,
     log |-> IF player_stats_tables = <<>>
             THEN <<LogEntry("warning", "no basic tables", "", "", url)>>
             ELSE <<>>,
     exc |-> NoException]

\* Lines 139-202, parsed being the outcome of the score conversion.
GameWithScores(team_names, parsed, player_stats_tables, url) ==
    IF parsed.exc # NoException
    THEN Raised(parsed.exc, <<>>)
    ELSE IF parsed.scores = None
    THEN Returned(None, <<LogEntry("error", "scores not integers", "", "", url)>>)
    ELSE GameWithPlayers(team_names, parsed.scores[1],
                         ParseTables(player_stats_tables, url,
                                     BeforeTables(player_stats_tables, url)))

\* Lines 131-202.
GameFrom(team_names, final_scores_text, player_stats_tables, url) ==
    IF Len(team_names) # 2
    THEN Returned(None, <<LogEntry("error", "team names", "", "", url)>>)
    ELSE IF Len(final_scores_text) # 2
    THEN Returned(None, <<LogEntry("error", "final scores", "", "", url)>>)
    ELSE GameWithScores(team_names, ParseScores(final_scores_text), player_stats_tables, url)

\* parse_box_score_page from the score box on (lines 126-202).
ParseGame(doc, url) ==
    GameFrom(TeamNames(doc.scorebox[1].strongs), FirstTwo(doc.scorebox[1].scores),
             BasicTables(doc), url)

\* The score box check forgotten: scorebox.find_all on None raises.
ParseBoxScorePage_NoScoreboxCheck(soup_arg, url) ==
    IF soup_arg = None
    THEN Returned(None, <<LogEntry("warning", "no soup", "", "", url)>>)
    ELSE IF soup_arg[1].scorebox = None
    THEN Raised("AttributeError", <<>>)
    ELSE ParseGame(soup_arg[1], url)

ParseBoxScorePage(soup_arg, url) ==
    IF soup_arg = None
    THEN Returned(None, <<LogEntry("warning", "no soup", "", "", url)>>)
    ELSE IF soup_arg[1].scorebox = None
    THEN Returned(None, <<LogEntry("error", "no scorebox", "", "", url)>>)
    ELSE ParseGame(soup_arg[1], url)

(***************************************************************************)
(* parse_daily_games_page.  A link target is the sequence of its pieces:   *)
(* the "/" separators and the words between them, none of which contains a *)
(* "/" itself, so that startswith, endswith and "in" on the string are the  *)
(* same tests on the sequence.                                             *)
(***************************************************************************)
SitePrefix == "https://www.basketball-reference.com"

StartsWith(s, pat) == Len(s) >= Len(pat) /\ SubSeq(s, 1, Len(pat)) = pat

EndsWith(s, pat) == Len(s) >= Len(pat) /\ SubSeq(s, Len(s) - Len(pat) + 1, Len(s)) = pat

Contains(s, pat) == \E i \in 1..(Len(s) - Len(pat) + 1) : SubSeq(s, i, i + Len(pat) - 1) = pat

IsBoxScoreLink(href) ==
    StartsWith(href, <<"/", "boxscores", "/">>) /\ EndsWith(href, <<".html">>)

\* The "/leaders/" test forgotten.
IsNotSubPage_NoLeaders(href) ==
    /\ ~Contains(href, <<"/", "pbp", "/">>)
    /\ ~Contains(href, <<"/", "shot-chart", "/">>)
    /\ ~Contains(href, <<"/", "plus-minus", "/">>)

IsNotSubPage(href) ==
    /\ ~Contains(href, <<"/", "pbp", "/">>)
    /\ ~Contains(href, <<"/", "shot-chart", "/">>)
    /\ ~Contains(href, <<"/", "plus-minus", "/">>)
    /\ ~Contains(href, <<"/", "leaders", "/">>)

\* a[href*="/boxscores/"]
HrefHasBoxscores(a) == a.href # None /\ Contains(a.href[1], <<"/", "boxscores", "/">>)

\* td.gamelink a[href*="/boxscores/"]
MatchesPrimary(a) == a.in_gamelink_td /\ HrefHasBoxscores(a)

\* div.game_summary a[href*="/boxscores/"], div.games_summaries a[href*="/boxscores/"]
MatchesFallback(a) == (a.in_game_summary \/ a.in_games_summaries) /\ HrefHasBoxscores(a)

\* The body of either "for game_link_tag in soup.select(...)" loop: the
\* references yielded and the diagnostics logged, in document order.
RECURSIVE YieldLinks(_, _, _, _)
YieldLinks(tags, where, daily_url, acc) ==
    IF tags = <<>> THEN acc
    ELSE LET href == Head(tags).href[1]
             is_box_score_link == IsBoxScoreLink(href)
             is_not_sub_page == IsNotSubPage(href)
         IN YieldLinks(Tail(tags), where, daily_url,
                IF is_box_score_link /\ is_not_sub_page
                THEN [acc EXCEPT !.urls = Append(@, <<SitePrefix>> \o href)]
                ELSE IF is_box_score_link /\ ~is_not_sub_page
                THEN [acc EXCEPT !.log = Append(@, LogEntry("debug", where, "", "", daily_url))]
                ELSE acc)

\* "if game_links_found == 0" forgotten: the fallback selector always runs.
ParseDailyGamesPage_AlwaysFallback(soup_arg, daily_url) ==
    IF soup_arg = None
    THEN [exc |-> NoException, urls |-> <<>>,
          log |-> <<LogEntry("warning", "no soup", "", "", daily_url)>>]
    ELSE YieldLinks(SelectSeq(soup_arg[1], MatchesFallback),
                    "filtered sub-page (fallback)", daily_url,
                    YieldLinks(SelectSeq(soup_arg[1], MatchesPrimary),
                               "filtered sub-page", daily_url,
                               [exc |-> NoException, urls |-> <<>>, log |-> <<>>]))

ParseDailyGamesPage(soup_arg, daily_url) ==
    IF soup_arg = None
    THEN [exc |-> NoException, urls |-> <<>>,
          log |-> <<LogEntry("warning", "no soup", "", "", daily_url)>>]
    ELSE LET start == [exc |-> NoException, urls |-> <<>>,
                       log |-> <<LogEntry("info", "primary selector", "", "", daily_url)>>]
             primary == YieldLinks(SelectSeq(soup_arg[1], MatchesPrimary),
                                   "filtered sub-page", daily_url, start)
             game_links_found == Len(primary.urls)
             retry == [primary EXCEPT !.log =
                          @ \o <<LogEntry("warning", "no links, trying fallback", "", "", daily_url),
                                 LogEntry("info", "fallback selector", "", "", daily_url)>>]
             fallback == YieldLinks(SelectSeq(soup_arg[1], MatchesFallback),
                                    "filtered sub-page (fallback)", daily_url, retry)
         IN IF game_links_found # 0 THEN primary
            ELSE IF Len(fallback.urls) # 0 THEN fallback
            ELSE [fallback EXCEPT !.log =
                      Append(@, LogEntry("error", "no box score links", "", "", daily_url))]

(***************************************************************************)
(* Award parsing helpers: get_month_numeric, get_award_year and            *)
(* parse_week_date_range.  Their text arguments are character sequences.   *)
(***************************************************************************)
\* A character for which str.isdigit() holds and which int() rejects (the
\* superscript two); it stands for every such character.
SuperscriptTwo == "^2"

\* str.isdigit()
IsDigit(s) == s # <<>> /\ \A i \in 1..Len(s) : s[i] \in Digits \cup {SuperscriptTwo}

\* str.replace('.', '')
RemoveDots(s) == SelectSeq(s, LAMBDA c : c # ".")

\* str.split(sep) for a one-character separator.
RECURSIVE SplitOn(_, _)
SplitOn(s, sep) ==
    IF FindChar(s, {sep}, 1) = 0 THEN <<s>>
    ELSE <<SubSeq(s, 1, FindChar(s, {sep}, 1) - 1)>>
             \o SplitOn(SubSeq(s, FindChar(s, {sep}, 1) + 1, Len(s)), sep)

\* str.split(sep, 1) of a text that contains sep.
SplitOnce(s, sep) ==
    <<SubSeq(s, 1, FindChar(s, {sep}, 1) - 1), SubSeq(s, FindChar(s, {sep}, 1) + 1, Len(s))>>

\* str.split(): the maximal runs of non-whitespace characters.
RECURSIVE SplitWhitespace(_)
SplitStripped(t) ==
    IF t = <<>> THEN <<>>
    ELSE IF FindChar(t, Whitespace, 1) = 0 THEN <<t>>
    ELSE <<SubSeq(t, 1, FindChar(t, Whitespace, 1) - 1)>>
             \o SplitWhitespace(SubSeq(t, FindChar(t, Whitespace, 1), Len(t)))

SplitWhitespace(s) == SplitStripped(LStrip(s))

RECURSIVE NaturalText(_)
NaturalText(n) ==
    LET d == <<"0", "1", "2", "3", "4", "5", "6", "7", "8", "9">>[(n % 10) + 1]
    IN IF n < 10 THEN <<d>> ELSE Append(NaturalText(n \div 10), d)

RECURSIVE ZeroPad(_, _)
ZeroPad(t, width) == IF Len(t) >= width THEN t ELSE ZeroPad(<<"0">> \o t, width)

\* The entries of the _MONTH_NAME_TO_NUMERIC dict, as <<key, value>> pairs.
MONTH_NAME_TO_NUMERIC ==
    {<<<<"j", "a", "n">>, 1>>, <<<<"j", "a", "n", "u", "a", "r", "y">>, 1>>, <<<<"j", "a", "n", ".">>, 1>>,
     <<<<"f", "e", "b">>, 2>>, <<<<"f", "e", "b", "r", "u", "a", "r", "y">>, 2>>, <<<<"f", "e", "b", ".">>, 2>>,
     <<<<"m", "a", "r">>, 3>>, <<<<"m", "a", "r", "c", "h">>, 3>>, <<<<"m", "a", "r", ".">>, 3>>,
     <<<<"a", "p", "r">>, 4>>, <<<<"a", "p", "r", "i", "l">>, 4>>, <<<<"a", "p", "r", ".">>, 4>>,
     <<<<"m", "a", "y">>, 5>>, <<<<"m", "a", "y", ".">>, 5>>,
     <<<<"j", "u", "n">>, 6>>, <<<<"j", "u", "n", "e">>, 6>>, <<<<"j", "u", "n", ".">>, 6>>,
     <<<<"j", "u", "l">>, 7>>, <<<<"j", "u", "l", "y">>, 7>>, <<<<"j", "u", "l", ".">>, 7>>,
     <<<<"a", "u", "g">>, 8>>, <<<<"a", "u", "g", "u", "s", "t">>, 8>>, <<<<"a", "u", "g", ".">>, 8>>,
     <<<<"s", "e", "p">>, 9>>, <<<<"s", "e", "p", "t", "e", "m", "b", "e", "r">>, 9>>, <<<<"s", "e", "p", ".">>, 9>>,
     <<<<"o", "c", "t">>, 10>>, <<<<"o", "c", "t", "o", "b", "e", "r">>, 10>>, <<<<"o", "c", "t", ".">>, 10>>,
     <<<<"n", "o", "v">>, 11>>, <<<<"n", "o", "v", "e", "m", "b", "e", "r">>, 11>>, <<<<"n", "o", "v", ".">>, 11>>,
     <<<<"d", "e", "c">>, 12>>, <<<<"d", "e", "c", "e", "m", "b", "e", "r">>, 12>>, <<<<"d", "e", "c", ".">>, 12>>,
     <<<<"o", "c", "t", "/", "n", "o", "v">>, 11>>}

\* dict.get(key, None)
DictGet(dict, key) ==
    IF \E e \in dict : e[1] = key
    THEN Some((CHOOSE e \in dict : e[1] = key)[2])
    ELSE None

\* get_month_numeric without the removal of the dots.
GetMonthNumeric_KeepDots(month_str_arg) ==
    IF month_str_arg = None \/ month_str_arg[1] = <<>> THEN None
    ELSE DictGet(MONTH_NAME_TO_NUMERIC, Strip(Lower(month_str_arg[1])))

\* get_month_numeric without the lowering of the text.
GetMonthNumeric_NoLower(month_str_arg) ==
    IF month_str_arg = None \/ month_str_arg[1] = <<>> THEN None
    ELSE DictGet(MONTH_NAME_TO_NUMERIC, RemoveDots(Strip(month_str_arg[1])))

\* get_month_numeric: the text lowered, stripped, then without its dots.
GetMonthNumeric(month_str_arg) ==
    IF month_str_arg = None \/ month_str_arg[1] = <<>> THEN None
    ELSE DictGet(MONTH_NAME_TO_NUMERIC, RemoveDots(Strip(Lower(month_str_arg[1]))))

AwardYear(ret, log) == [exc |-> NoException, ret |-> ret, log |-> log]

\* get_award_year with the season turning after August instead of in it.
AwardYearFromStart_AfterAugust(start_year_season, month) ==
    IF start_year_season = None
    THEN AwardYear(None, <<LogEntry("error", "could not parse start year", "", "", "")>>)
    ELSE IF ~(1 <= month /\ month <= 12)
    THEN AwardYear(None, <<LogEntry("error", "invalid month_numeric", "", "", "")>>)
    ELSE IF month > 8
    THEN AwardYear(Some(start_year_season[1]), <<>>)
    ELSE AwardYear(Some(start_year_season[1] + 1), <<>>)

\* get_award_year from the range check on (lines 251-267), start_year_season
\* being the result of int(s_parts[0]) (None: ValueError, which is caught).
AwardYearFromStart(start_year_season, month) ==
    IF start_year_season = None
    THEN AwardYear(None, <<LogEntry("error", "could not parse start year", "", "", "")>>)
    ELSE IF ~(1 <= month /\ month <= 12)
    THEN AwardYear(None, <<LogEntry("error", "invalid month_numeric", "", "", "")>>)
    ELSE IF month >= 8
    THEN AwardYear(Some(start_year_season[1]), <<>>)
    ELSE AwardYear(Some(start_year_season[1] + 1), <<>>)

\* get_award_year from the split on (lines 246-267).
AwardYearFromParts(s_parts, month) ==
    IF Len(s_parts) # 2 \/ ~IsDigit(s_parts[1]) \/ ~IsDigit(s_parts[2])
    THEN AwardYear(None, <<LogEntry("error", "invalid season string format", "", "", "")>>)
    ELSE AwardYearFromStart(PyInt(s_parts[1]), month)

GetAwardYear(season_str_arg, month_numeric_arg) ==
    IF season_str_arg = None \/ season_str_arg[1] = <<>> \/ month_numeric_arg = None
    THEN AwardYear(None, <<LogEntry("warning", "cannot determine award year", "", "", "")>>)
    ELSE AwardYearFromParts(SplitOn(season_str_arg[1], "-"), month_numeric_arg[1])

\* calendar rules of datetime
IsLeap(year) == (year % 4 = 0 /\ year % 100 # 0) \/ year % 400 = 0

DaysInMonth(year, month) ==
    IF month = 2 THEN (IF IsLeap(year) THEN 29 ELSE 28)
    ELSE IF month \in {4, 6, 9, 11} THEN 30
    ELSE 31

\* datetime that clamps a day past the end of the month to the last day.
Datetime_Clamping(year, month, day) ==
    IF /\ 1 <= year /\ year <= 9999
       /\ 1 <= month /\ month <= 12
       /\ 1 <= day
    THEN Some([year |-> year, month |-> month,
               day |-> IF day <= DaysInMonth(year, month) THEN day
                       ELSE DaysInMonth(year, month)])
    ELSE None

\* datetime(year, month, day): None stands for ValueError.
Datetime(year, month, day) ==
    IF /\ 1 <= year /\ year <= 9999
       /\ 1 <= month /\ month <= 12
       /\ 1 <= day /\ day <= DaysInMonth(year, month)
    THEN Some([year |-> year, month |-> month, day |-> day])
    ELSE None

\* strftime("%Y-%m-%d") of a date with a four-digit year.
Strftime(d) ==
    NaturalText(d.year) \o <<"-">> \o ZeroPad(NaturalText(d.month), 2)
        \o <<"-">> \o ZeroPad(NaturalText(d.day), 2)

\* The outcomes of parse_week_date_range: "return None, None" after one
\* logger call, an exception on its way to the except clauses, two dates.
WeekAbsent(level, msg) ==
    [exc |-> NoException, start |-> None, end |-> None,
     log |-> <<LogEntry(level, msg, "", "", "")>>]

WeekRaised(exc) == [exc |-> exc, start |-> None, end |-> None, log |-> <<>>]

\* Lines 336-339, the arguments being the results of the two datetime(...)
\* calls, evaluated in this order.
FormatDates(start_date_obj, end_date_obj) ==
    IF start_date_obj = None \/ end_date_obj = None
    THEN WeekRaised("ValueError")
    ELSE [exc |-> NoException,
          start |-> Some(Strftime(start_date_obj[1])),
          end |-> Some(Strftime(end_date_obj[1])),
          log |-> <<>>]

\* Single day "Month Day" (lines 327-339), start_day being int(day_range_str).
SingleDay(start_month_numeric, year_for_start_date, start_day) ==
    IF start_day = None THEN WeekRaised("ValueError")
    ELSE FormatDates(Datetime(year_for_start_date, start_month_numeric, start_day[1]),
                     Datetime(year_for_start_date, start_month_numeric, start_day[1]))

\* Same month "D1-D2" (lines 322-339), end_day being int(end_day_or_month_str).
SameMonth(start_month_numeric, year_for_start_date, start_day, end_day) ==
    IF end_day = None THEN WeekRaised("ValueError")
    ELSE FormatDates(Datetime(year_for_start_date, start_month_numeric, start_day),
                     Datetime(year_for_start_date, start_month_numeric, end_day[1]))

\* Month crossing with the end date always in the year of the start date.
CrossMonth_SameYear(start_month_numeric, year_for_start_date, start_day, end_month_numeric, end_day) ==
    IF end_day = None THEN WeekRaised("ValueError")
    ELSE FormatDates(Datetime(year_for_start_date, start_month_numeric, start_day),
                     Datetime(year_for_start_date, end_month_numeric, end_day[1]))

\* Month crossing "D1-M2 D2" (lines 317-339), end_day being int(parts[2]).
CrossMonth(start_month_numeric, year_for_start_date, start_day, end_month_numeric, end_day) ==
    IF end_day = None THEN WeekRaised("ValueError")
    ELSE FormatDates(Datetime(year_for_start_date, start_month_numeric, start_day),
                     Datetime(IF end_month_numeric < start_month_numeric
                              THEN year_for_start_date + 1 ELSE year_for_start_date,
                              end_month_numeric, end_day[1]))

\* Lines 311-339, end_text being end_day_or_month_str and
\* end_month_numeric_check the result of get_month_numeric for it.
WeekFromEnd(parts, start_month_numeric, year_for_start_date, start_day, end_text, end_month_numeric_check) ==
    IF end_month_numeric_check # None
    THEN IF Len(parts) < 3
         THEN WeekAbsent("warning", "incomplete month-crossing range")
         ELSE CrossMonth(start_month_numeric, year_for_start_date, start_day,
                         end_month_numeric_check[1], PyInt(parts[3]))
    ELSE SameMonth(start_month_numeric, year_for_start_date, start_day,
                   PyInt(end_text))

\* Lines 309-339, start_day being int(start_day_str).
WeekFromStartDay(parts, start_month_numeric, year_for_start_date, start_day, end_text) ==
    IF start_day = None THEN WeekRaised("ValueError")
    ELSE WeekFromEnd(parts, start_month_numeric, year_for_start_date, start_day[1],
                     end_text, GetMonthNumeric(Some(end_text)))

\* Lines 308-339, halves being day_range_str.split('-', 1).
WeekFromRange(parts, start_month_numeric, year_for_start_date, halves) ==
    WeekFromStartDay(parts, start_month_numeric, year_for_start_date,
                     PyInt(halves[1]), halves[2])

\* Lines 305-339.
WeekFromDayRange(parts, start_month_numeric, year_for_start_date, day_range_str) ==
    IF \E i \in 1..Len(day_range_str) : day_range_str[i] = "-"
    THEN WeekFromRange(parts, start_month_numeric, year_for_start_date,
                       SplitOnce(day_range_str, "-"))
    ELSE IF IsDigit(day_range_str)
    THEN SingleDay(start_month_numeric, year_for_start_date, PyInt(day_range_str))
    ELSE WeekAbsent("warning", "unparseable day range format")

\* Lines 296-339 with every start date in the season's starting year.
WeekFromMonth_StartYearOnly(parts, effective_year, start_month_numeric) ==
    IF start_month_numeric = None
    THEN WeekAbsent("warning", "unknown start month")
    ELSE WeekFromDayRange(parts, start_month_numeric[1], effective_year, parts[2])

\* Lines 296-339, start_month_numeric being get_month_numeric(parts[0]).
WeekFromMonth(parts, effective_year, start_month_numeric) ==
    IF start_month_numeric = None
    THEN WeekAbsent("warning", "unknown start month")
    ELSE WeekFromDayRange(parts, start_month_numeric[1],
                          IF start_month_numeric[1] >= 8 THEN effective_year
                          ELSE effective_year + 1,
                          parts[2])

\* No rejoining of a hyphen that is a token of its own.
Rejoin_Never(parts) == parts

\* "Month Day1 - Day2" becomes "Month Day1-Day2" (lines 289-290).
Rejoin(parts) ==
    IF Len(parts) = 4 /\ parts[3] = <<"-">>
    THEN <<parts[1], parts[2] \o <<"-">> \o parts[4]>>
    ELSE parts

\* The body of the try statement (lines 292-339), from the rejoined parts on.
WeekBody(parts, effective_year) ==
    IF ~(2 <= Len(parts) /\ Len(parts) <= 3)
    THEN WeekAbsent("warning", "unexpected number of parts")
    ELSE WeekFromMonth(parts, effective_year, GetMonthNumeric(Some(parts[1])))

\* No except clauses: what the body raises propagates.
ExceptClauses_None(r) == r

\* The except clauses (lines 341-348).
ExceptClauses(r) ==
    IF r.exc = "ValueError" THEN WeekAbsent("error", "ValueError parsing week string")
    ELSE IF r.exc # NoException THEN WeekAbsent("error", "unexpected error parsing week string")
    ELSE r

ParseWeekDateRange(week_str_arg, effective_season_start_year_arg) ==
    IF week_str_arg = None \/ week_str_arg[1] = <<>> \/ effective_season_start_year_arg = None
    THEN WeekAbsent("warning", "missing week_str or effective_season_start_year")
    ELSE ExceptClauses(WeekBody(Rejoin(SplitWhitespace(RemoveDots(week_str_arg[1]))),
                                effective_season_start_year_arg[1]))

(***************************************************************************)
(* The SQLite store (init_db) and the box score sink of get_games_data.py. *)
(* A table is its rows in insertion order and its AUTOINCREMENT counter.   *)
(* A column value of a table with a UNIQUE index is None (NULL) or <<v>>.  *)
(***************************************************************************)
\* init_db on a new database file: CREATE TABLE IF NOT EXISTS for each table.
InitDb ==
    [t \in {"games", "player_stats", "player_of_the_month", "player_of_the_week",
            "rookie_of_the_month", "coach_of_the_month"} |-> [rows |-> <<>>, seq |-> 0]]

\* Two rows collide on a UNIQUE index when they agree on every column of it
\* and none of these values is NULL.
Conflicts(stored, row, unique) == \A c \in unique : row[c] # None /\ stored[c] = row[c]

\* INSERT INTO ... VALUES (...): the table afterwards, the new row with the
\* next value of the AUTOINCREMENT counter as its id.
Insert(table, row) ==
    [rows |-> Append(table.rows, [c \in DOMAIN row \cup {"id"} |->
                                     IF c = "id" THEN table.seq + 1 ELSE row[c]]),
     seq |-> table.seq + 1]

\* INSERT ... ON CONFLICT(unique) DO NOTHING: the table afterwards and
\* cursor.rowcount.  The counter advances whether or not a row is stored.
InsertOrIgnore(table, row, unique) ==
    IF \E i \in 1..Len(table.rows) : Conflicts(table.rows[i], row, unique)
    THEN [table |-> [table EXCEPT !.seq = @ + 1], rowcount |-> 0]
    ELSE [table |-> Insert(table, row), rowcount |-> 1]

\* SELECT id FROM games WHERE box_score_url = ? and fetchone().
SelectGameId(games, url) ==
    IF \E i \in 1..Len(games.rows) : games.rows[i].box_score_url = Some(url)
    THEN Some(games.rows[CHOOSE i \in 1..Len(games.rows) :
                             /\ games.rows[i].box_score_url = Some(url)
                             /\ \A j \in 1..(i - 1) : games.rows[j].box_score_url # Some(url)].id)
    ELSE None

\* The parameters of the INSERT INTO games statement.
GameRow(game_date_str, game_data, url) ==
    [game_date |-> Some(game_date_str),
     home_team |-> Some(game_data.home_team),
     away_team |-> Some(game_data.away_team),
     home_score |-> Some(game_data.home_score),
     away_score |-> Some(game_data.away_score),
     box_score_url |-> Some(url)]

\* insert_game_into_db after the INSERT: the SELECT and the returned id.
GameInserted(games, url) == [games |-> games, game_id |-> SelectGameId(games, url)]

\* insert_game_into_db: the games table afterwards and the returned id.
InsertGameIntoDb(games, game_date_str, game_data, url) ==
    GameInserted(InsertOrIgnore(games, GameRow(game_date_str, game_data, url), {"box_score_url"}).table, url)

\* No game id stored in the stat rows.
PlayerStatRow_NoGameId(game_id, player_stat_data) ==
    [k \in RowKeys \cup {"game_id"} |-> IF k = "game_id" THEN 0 ELSE player_stat_data[k]]

\* The values of the INSERT INTO player_stats statement.
PlayerStatRow(game_id, player_stat_data) ==
    [k \in RowKeys \cup {"game_id"} |-> IF k = "game_id" THEN game_id ELSE player_stat_data[k]]

\* insert_player_stats_into_db: the player_stats table afterwards; the
\* returned count is the number of players.
RECURSIVE InsertPlayerStatsIntoDb(_, _, _)
InsertPlayerStatsIntoDb(player_stats, game_id, players_data_list) ==
    IF players_data_list = <<>> THEN player_stats
    ELSE InsertPlayerStatsIntoDb(Insert(player_stats, PlayerStatRow(game_id, Head(players_data_list))),
                                 game_id, Tail(players_data_list))

\* The outcomes of process_single_box_score.
Processed(d, flag, count) == [db |-> d, exc |-> NoException, ret |-> <<flag, count>>]

\* process_single_box_score after insert_game_into_db (lines 345-364): both
\* branches commit.
StoreGame(d, inserted, game_data) ==
    IF inserted.game_id = None THEN Processed(d, FALSE, 0)
    ELSE Processed([d EXCEPT !["games"] = inserted.games,
                             !["player_stats"] = InsertPlayerStatsIntoDb(@, inserted.game_id[1], game_data.players)],
                   TRUE, Len(game_data.players))

\* Only "not game_data": a game without a team name is stored.
StoreParsed_NoTeamCheck(d, parsed, url, game_date_str) ==
    IF parsed.exc # NoException THEN [db |-> d, exc |-> parsed.exc, ret |-> None]
    ELSE IF parsed.ret = None
    THEN Processed(d, FALSE, 0)
    ELSE StoreGame(d, InsertGameIntoDb(d["games"], game_date_str, parsed.ret[1], url), parsed.ret[1])

\* process_single_box_score after parse_box_score_page (lines 339-364).
StoreParsed(d, parsed, url, game_date_str) ==
    IF parsed.exc # NoException THEN [db |-> d, exc |-> parsed.exc, ret |-> None]
    ELSE IF parsed.ret = None \/ parsed.ret[1].home_team = "" \/ parsed.ret[1].away_team = ""
    THEN Processed(d, FALSE, 0)
    ELSE StoreGame(d, InsertGameIntoDb(d["games"], game_date_str, parsed.ret[1], url), parsed.ret[1])

\* process_single_box_score, box_score_soup being the result of get_soup.
ProcessSingleBoxScore(d, box_score_soup, url, game_date_str) ==
    IF box_score_soup = None THEN Processed(d, FALSE, 0)
    ELSE StoreParsed(d, ParseBoxScorePage(box_score_soup, url), url, game_date_str)

\* daterange(start_date, end_date): start_date + timedelta(n) for n in
\* range((end_date - start_date).days + 1), an empty range when the
\* difference is below zero.  Dates are [year, month, day] records; date
\* subtraction and date + timedelta work on the proleptic Gregorian
\* ordinals of the dates, as datetime does.
\* Here with range(days), which leaves the end date out.
Daterange_Exclusive(start_date, end_date) ==
    LET DaysBeforeYear(y) == (y - 1) * 365 + ((y - 1) \div 4) - ((y - 1) \div 100) + ((y - 1) \div 400)
        DaysBeforeMonth(y, m) ==
            <<0, 31, 59, 90, 120, 151, 181, 212, 243, 273, 304, 334>>[m]
                + (IF m > 2 /\ IsLeap(y) THEN 1 ELSE 0)
        ToOrdinal(d) == DaysBeforeYear(d.year) + DaysBeforeMonth(d.year, d.month) + d.day
        FromOrdinal(o) ==
            LET y == CHOOSE y \in start_date.year..end_date.year :
                         DaysBeforeYear(y) < o /\ o <= DaysBeforeYear(y + 1)
                m == CHOOSE m \in 1..12 :
                         /\ DaysBeforeMonth(y, m) < o - DaysBeforeYear(y)
                         /\ o - DaysBeforeYear(y) <= DaysBeforeMonth(y, m) + DaysInMonth(y, m)
            IN [year |-> y, month |-> m, day |-> o - DaysBeforeYear(y) - DaysBeforeMonth(y, m)]
        days == ToOrdinal(end_date) - ToOrdinal(start_date)
    IN [n \in 1..days |-> FromOrdinal(ToOrdinal(start_date) + n - 1)]

\* daterange(start_date, end_date), with range(days + 1).
Daterange(start_date, end_date) ==
    LET DaysBeforeYear(y) == (y - 1) * 365 + ((y - 1) \div 4) - ((y - 1) \div 100) + ((y - 1) \div 400)
        DaysBeforeMonth(y, m) ==
            <<0, 31, 59, 90, 120, 151, 181, 212, 243, 273, 304, 334>>[m]
                + (IF m > 2 /\ IsLeap(y) THEN 1 ELSE 0)
        ToOrdinal(d) == DaysBeforeYear(d.year) + DaysBeforeMonth(d.year, d.month) + d.day
        FromOrdinal(o) ==
            LET y == CHOOSE y \in start_date.year..end_date.year :
                         DaysBeforeYear(y) < o /\ o <= DaysBeforeYear(y + 1)
                m == CHOOSE m \in 1..12 :
                         /\ DaysBeforeMonth(y, m) < o - DaysBeforeYear(y)
                         /\ o - DaysBeforeYear(y) <= DaysBeforeMonth(y, m) + DaysInMonth(y, m)
            IN [year |-> y, month |-> m, day |-> o - DaysBeforeYear(y) - DaysBeforeMonth(y, m)]
        days == ToOrdinal(end_date) - ToOrdinal(start_date)
    IN [n \in 1..(days + 1) |-> FromOrdinal(ToOrdinal(start_date) + n - 1)]

\* Lines 385-388 of process_date: the counters of the day after one call of
\* process_single_box_score; an exception of the call leaves the loop.
AfterBoxScore(today, r) ==
    IF r.exc # NoException THEN [today EXCEPT !.db = r.db, !.exc = r.exc]
    ELSE [db |-> r.db, exc |-> NoException,
          games_processed_today |-> today.games_processed_today + (IF r.ret[1] THEN 1 ELSE 0),
          players_inserted_today |-> today.players_inserted_today + r.ret[2]]

\* process_date from line 377 on, box_score_urls being the URLs of the daily
\* page with what get_soup returns for each: no URL returns 0, 0 and leaves
\* the store alone (lines 377-379), as the loop over no URL does.
RECURSIVE ProcessDate(_, _, _)
ProcessDate(today, box_score_urls, single_date_str) ==
    IF box_score_urls = <<>> \/ today.exc # NoException THEN today
    ELSE ProcessDate(AfterBoxScore(today,
                                   ProcessSingleBoxScore(today.db, Head(box_score_urls).soup,
                                                         Head(box_score_urls).box_score_url,
                                                         single_date_str)),
                     Tail(box_score_urls), single_date_str)

(***************************************************************************)
(* The award scrapers of get_monthly_weekly_awards.py.  An award table is  *)
(* the sequence of its <tr> rows; a row has its <td> cells, and a cell its *)
(* text and the text of its first link, if any.                            *)
(***************************************************************************)
AWARD_URLS ==
    [pom |-> "https://www.basketball-reference.com/awards/pom.html",
     pow |-> "https://www.basketball-reference.com/awards/pow.html",
     rom |-> "https://www.basketball-reference.com/awards/rom.html",
     com |-> "https://www.basketball-reference.com/awards/com.html"]

\* --start_year and --end_year of the run.
StartSeasonYear == 2022
EndSeasonYear == 2023

\* cell.get_text(strip=True)
CellText(cell) == Strip(cell.text)

\* The text of the link of a name cell, or of the cell when it has no link.
LinkOrCellText(cell) == IF cell.a # None THEN Strip(cell.a[1]) ELSE Strip(cell.text)

\* The parameters of an award INSERT; an empty conference is stored as NULL.
AwardRow(name_field, entity_name, team_abbr, keys, conf, league_name, base_url) ==
    [c \in {name_field, "team_abbreviation", "conference", "league_name", "source_url"} \cup DOMAIN keys |->
        CASE c = name_field -> Some(entity_name)
          [] c = "team_abbreviation" -> Some(team_abbr)
          [] c = "conference" -> (IF conf = <<>> THEN None ELSE Some(conf))
          [] c = "league_name" -> Some(league_name)
          [] c = "source_url" -> Some(base_url)
          [] OTHER -> Some(keys[c])]

\* The state of a scrape loop after an INSERT: rowcount > 0 counts.
AfterInsert(acc, ins) ==
    [acc EXCEPT !.table = ins.table, !.inserted_count = @ + ins.rowcount]

\* The columns of the ON CONFLICT clause of scrape_monthly_award.
ConflictFields(award_type, name_field) ==
    {name_field, "month_numeric", "year_numeric", "conference", "league_name"}
        \cup (IF award_type = "coach_of_the_month" THEN {"team_abbreviation"} ELSE {})

\* Lines 159-177 of scrape_monthly_award, year_numeric being the result of
\* get_award_year.
MonthlyFromYear(acc, cells, award_type, name_field, base_url, month_numeric_arg, year_numeric) ==
    IF year_numeric = None THEN acc
    ELSE IF CellText(cells[2]) # <<"N", "B", "A">> THEN acc
    ELSE AfterInsert(acc, InsertOrIgnore(acc.table,
                              AwardRow(name_field, LinkOrCellText(cells[3]), LinkOrCellText(cells[6]),
                                       [month_numeric |-> month_numeric_arg[1], year_numeric |-> year_numeric[1]],
                                       CellText(cells[4]), CellText(cells[2]), base_url),
                              ConflictFields(award_type, name_field)))

\* Lines 156-177, month_numeric_arg being the result of get_month_numeric.
MonthlyFromMonth(acc, cells, award_type, name_field, base_url, month_numeric_arg) ==
    IF month_numeric_arg = None THEN acc
    ELSE MonthlyFromYear(acc, cells, award_type, name_field, base_url, month_numeric_arg,
                         GetAwardYear(Some(CellText(cells[1])), month_numeric_arg).ret)

\* Lines 152-177, current_season_start_year being int(season_str.split("-")[0])
\* (None: ValueError, caught by the except clause of the row).
MonthlyFromSeason(acc, cells, award_type, name_field, base_url, current_season_start_year) ==
    IF current_season_start_year = None THEN [acc EXCEPT !.errors = @ + 1]
    ELSE IF ~(StartSeasonYear <= current_season_start_year[1] /\ current_season_start_year[1] <= EndSeasonYear)
    THEN acc
    ELSE MonthlyFromMonth(acc, cells, award_type, name_field, base_url,
                          GetMonthNumeric(Some(CellText(cells[5]))))

\* One iteration of the loop of scrape_monthly_award (lines 136-180).
ScrapeMonthlyRow(acc, row, award_type, name_field, base_url) ==
    IF row.colhead THEN acc
    ELSE IF Len(row.cells) < 6 THEN acc
    ELSE MonthlyFromSeason(acc, row.cells, award_type, name_field, base_url,
                           PyInt(SplitOn(CellText(row.cells[1]), "-")[1]))

\* The try around the loop instead of inside it: the first row that raises
\* ends the page.
RECURSIVE ScrapeMonthlyRows_TryAroundLoop(_, _, _, _, _)
ScrapeMonthlyRows_TryAroundLoop(acc, rows, award_type, name_field, base_url) ==
    IF rows = <<>> \/ acc.errors > 0 THEN acc
    ELSE ScrapeMonthlyRows_TryAroundLoop(ScrapeMonthlyRow(acc, Head(rows), award_type, name_field, base_url),
                                         Tail(rows), award_type, name_field, base_url)

RECURSIVE ScrapeMonthlyRows(_, _, _, _, _)
ScrapeMonthlyRows(acc, rows, award_type, name_field, base_url) ==
    IF rows = <<>> THEN acc
    ELSE ScrapeMonthlyRows(ScrapeMonthlyRow(acc, Head(rows), award_type, name_field, base_url),
                           Tail(rows), award_type, name_field, base_url)

\* scrape_monthly_award, table being the result of get_soup and
\* find_award_table (None: no document or no table): the table of the store
\* afterwards, the returned count and the number of rows that raised.
ScrapeMonthlyAward(stored, award_type, base_url, table, name_field) ==
    IF table = None THEN [table |-> stored, inserted_count |-> 0, errors |-> 0]
    ELSE ScrapeMonthlyRows([table |-> stored, inserted_count |-> 0, errors |-> 0],
                           table[1], award_type, name_field, base_url)

\* Lines 242-249 of scrape_player_of_the_week, dates being the result of
\* parse_week_date_range.
WeeklyFromDates(acc, cells, data_offset, base_url, dates) ==
    IF dates.start = None \/ dates.end = None THEN acc
    ELSE AfterInsert(acc, InsertOrIgnore(acc.table,
                              AwardRow("player_name", LinkOrCellText(cells[data_offset + 3]),
                                       LinkOrCellText(cells[data_offset + 5]),
                                       [week_start_date |-> dates.start[1], week_end_date |-> dates.end[1]],
                                       CellText(cells[data_offset + 4]), CellText(cells[data_offset + 1]), base_url),
                              {"player_name", "week_start_date", "week_end_date", "conference", "league_name"}))

\* Lines 227-249, the season of the row and the offset of its data cells
\* being known.
WeeklyFromSeason(acc, cells, data_offset, base_url, season_start_year) ==
    IF season_start_year = None THEN acc
    ELSE IF ~(StartSeasonYear <= season_start_year[1] /\ season_start_year[1] <= EndSeasonYear)
    THEN acc
    ELSE IF CellText(cells[data_offset + 1]) # <<"N", "B", "A">> THEN acc
    ELSE WeeklyFromDates(acc, cells, data_offset, base_url,
                         ParseWeekDateRange(Some(CellText(cells[data_offset + 2])), season_start_year))

\* The test of the first cell for a season label (line 216); "--" stands for
\* the en dash, one character.
IsSeasonCell(first_cell_text) ==
    /\ first_cell_text # <<>>
    /\ \E i \in 1..Len(first_cell_text) : first_cell_text[i] \in {"-", "--"}
    /\ IsDigit(SelectSeq(first_cell_text, LAMBDA c : c \notin {"-", "--"}))

\* Lines 217-249, row_year being int(...) of the first cell's season label
\* (None: ValueError, after which the row inherits the season).
WeeklyFromFirstCell(acc, cells, base_url, row_year) ==
    IF row_year = None THEN WeeklyFromSeason(acc, cells, 0, base_url, acc.season)
    ELSE IF Len(cells) < 6 THEN acc
    ELSE WeeklyFromSeason(acc, cells, 1, base_url, row_year)

\* A season header that does not parse clears the current season.
ScrapeWeeklyRow_ForgetOnBadHeader(acc, row, base_url) ==
    IF row.colhead THEN acc
    ELSE IF row.season_header # None /\ Strip(row.season_header[1]) # <<>>
    THEN [acc EXCEPT !.season = PyInt(SplitOn(Strip(row.season_header[1]), "-")[1])]
    ELSE IF Len(row.cells) < 5 THEN acc
    ELSE IF IsSeasonCell(CellText(row.cells[1]))
    THEN WeeklyFromFirstCell(acc, row.cells, base_url,
                             PyInt(SplitOn(SplitOn(CellText(row.cells[1]), "-")[1], "--")[1]))
    ELSE WeeklyFromSeason(acc, row.cells, 0, base_url, acc.season)

\* One iteration of the loop of scrape_player_of_the_week (lines 199-252).
ScrapeWeeklyRow(acc, row, base_url) ==
    IF row.colhead THEN acc
    ELSE IF row.season_header # None /\ Strip(row.season_header[1]) # <<>>
    THEN IF PyInt(SplitOn(Strip(row.season_header[1]), "-")[1]) = None THEN acc
         ELSE [acc EXCEPT !.season = PyInt(SplitOn(Strip(row.season_header[1]), "-")[1])]
    ELSE IF Len(row.cells) < 5 THEN acc
    ELSE IF IsSeasonCell(CellText(row.cells[1]))
    THEN WeeklyFromFirstCell(acc, row.cells, base_url,
                             PyInt(SplitOn(SplitOn(CellText(row.cells[1]), "-")[1], "--")[1]))
    ELSE WeeklyFromSeason(acc, row.cells, 0, base_url, acc.season)

RECURSIVE ScrapeWeeklyRows(_, _, _)
ScrapeWeeklyRows(acc, rows, base_url) ==
    IF rows = <<>> THEN acc
    ELSE ScrapeWeeklyRows(ScrapeWeeklyRow(acc, Head(rows), base_url), Tail(rows), base_url)

\* scrape_player_of_the_week, table being the result of get_soup and
\* find_award_table.
ScrapePlayerOfTheWeek(stored, base_url, table) ==
    IF table = None THEN [table |-> stored, inserted_count |-> 0, errors |-> 0, season |-> None]
    ELSE ScrapeWeeklyRows([table |-> stored, inserted_count |-> 0, errors |-> 0, season |-> None],
                          table[1], base_url)

(***************************************************************************)
(* Input documents and texts.                                              *)
(***************************************************************************)

\* Calls of parse_box_score_page: documents that vary the score box, one row,
\* or the tables; the one-row documents under two source references.
BoxCalls ==
    LET MilUrl == "https://www.basketball-reference.com/boxscores/202310260MIL.html"
        LalUrl == "https://www.basketball-reference.com/boxscores/202310260LAL.html"
        \* <strong> elements of a score box: with a link, without, and empty.
        Strongs == {[a |-> Some("Philadelphia 76ers"), text |-> "Philadelphia 76ers (1-0)"],
                    [a |-> None, text |-> "Milwaukee Bucks"],
                    [a |-> None, text |-> ""]}
        \* Texts of <div class="score"> elements.
        ScoreTexts == {<<"1", "1", "7">>, <<"1", "1", "8">>, <<" ", "9", "0", " ">>, <<>>, <<"1", "o", "0">>, <<"-", "5">>}
        \* Score boxes: every sequence of <strong> elements against a few sequences of
        \* score texts, and every sequence of score texts against a few sequences of
        \* <strong> elements.
        FewStrongSeqs ==
            {<<[a |-> Some("Philadelphia 76ers"), text |-> "Philadelphia 76ers (1-0)"],
               [a |-> None, text |-> "Milwaukee Bucks"]>>,
             <<[a |-> None, text |-> "Milwaukee Bucks"]>>,
             <<[a |-> None, text |-> "Milwaukee Bucks"],
               [a |-> Some("Philadelphia 76ers"), text |-> "Philadelphia 76ers (1-0)"],
               [a |-> None, text |-> ""]>>}
        FewScoreSeqs ==
            {<<<<"1", "1", "7">>, <<"1", "1", "8">>>>, <<<<"1", "1", "7">>>>, <<<<"1", "1", "7">>, <<"1", "o", "0">>>>, <<<<"1", "1", "8">>, <<"1", "1", "7">>, <<"1", "o", "0">>>>}
        StrongScoreboxes ==
            {[strongs |-> st, scores |-> sc] :
                st \in SeqsUpTo(Strongs, MaxStrong), sc \in FewScoreSeqs}
        ScoreScoreboxes ==
            {[strongs |-> st, scores |-> sc] :
                st \in FewStrongSeqs, sc \in SeqsUpTo(ScoreTexts, MaxScores)}
        ValidScorebox ==
            [strongs |-> <<[a |-> Some("Philadelphia 76ers"), text |-> "Philadelphia 76ers (1-0)"],
                           [a |-> None, text |-> "Milwaukee Bucks"]>>,
             scores |-> <<<<"1", "1", "7">>, <<"1", "1", "8">>>>]
        AllCells == {"mp"} \cup StatFields
        \* A row of a box score in which every cell is present and well formed.
        BaseCells ==
            [c \in AllCells |->
                IF c = "mp" THEN Some(<<"3", "6", ":", "2", "9">>)
                ELSE IF c \in IntFields THEN Some(<<"9">>)
                ELSE IF c \in RealFields THEN Some(<<".", "4", "2", "9">>)
                ELSE Some(<<"+", "2">>)]
        PlayerTh(name) == Some([a |-> Some(name), text |-> name])
        LabelTh(text) == Some([a |-> None, text |-> text])
        \* What a stat cell can hold: nothing (no cell), or a text.
        CellContents ==
            {None, Some(<<>>), Some(<<" ">>), Some(<<"a", "b", "c">>), Some(<<".", "5">>), Some(<<"n", "a", "n">>),
             Some(<<"i", "n", "f">>), Some(<<"-", "3">>), Some(<<" ", "7", " ">>), Some(<<"1", "_", "0">>), Some(<<"1", "e", "2">>)}
        \* What the minutes cell can hold.
        MinutesContents ==
            {None, Some(<<>>), Some(<<" ">>), Some(<<"2", "0", ":", "0", "0">>), Some(<<" ", "D", "i", "d", " ", "N", "o", "t", " ", "P", "l", "a", "y", " ">>)}
                \cup {Some(m) : m \in non_playing_statuses}
        \* Rows with one cell that deviates from the well-formed row.
        DefectRows ==
            {[th |-> PlayerTh("Joel Embiid"), cells |-> [BaseCells EXCEPT ![f] = c]] :
                f \in StatFields, c \in CellContents}
        \* Rows in which every stat cell holds the same content.
        UniformRows ==
            {[th |-> PlayerTh("Player EmptyStats"),
              cells |-> [f \in AllCells |-> IF f = "mp" THEN BaseCells[f] ELSE c]] :
                c \in CellContents}
        MinutesRows ==
            {[th |-> PlayerTh("Player DNP"), cells |-> [BaseCells EXCEPT !["mp"] = c]] :
                c \in MinutesContents}
        LabelRows ==
            {[th |-> LabelTh("Reserves"), cells |-> [c \in AllCells |-> None]],
             [th |-> LabelTh("Team Totals"), cells |-> BaseCells],
             [th |-> LabelTh("Starters"), cells |-> [c \in AllCells |-> None]],
             [th |-> None, cells |-> BaseCells]}
        AllRows == DefectRows \cup UniformRows \cup MinutesRows \cup LabelRows
        \* The rows that the longer documents are built from.
        FewRows ==
            {[th |-> PlayerTh("Joel Embiid"), cells |-> BaseCells],
             [th |-> PlayerTh("Player DNP"),
              cells |-> [BaseCells EXCEPT !["mp"] = Some(<<"D", "i", "d", " ", "N", "o", "t", " ", "P", "l", "a", "y">>)]],
             [th |-> PlayerTh("Player EmptyStats"),
              cells |-> [f \in AllCells |-> IF f = "mp" THEN BaseCells[f] ELSE Some(<<"a", "b", "c">>)]]}
        \* Table ids, split at their hyphens.
        TableIds == {Some(<<"box", "PHI", "game", "basic">>),
                     Some(<<"box", "MIL", "game", "basic">>),
                     Some(<<"box", "PHI", "game", "advanced">>)}
        OtherTableIds == {Some(<<"box", "basic">>), Some(<<"box", "">>), Some(<<"line_score">>), None}
        \* Tables without a body or with a body of up to n of the rows.
        Tables(rows, n) ==
            {[id |-> i, tbody |-> b] :
                i \in TableIds, b \in {None} \cup {Some(r) : r \in SeqsUpTo(rows, n)}}
        \* Tables with a body of exactly two of the rows.
        TwoRowTables(rows) ==
            {[id |-> i, tbody |-> Some(<<r1, r2>>)] :
                i \in {Some(<<"box", "PHI", "game", "basic">>), Some(<<"box", "MIL", "game", "basic">>)},
                r1 \in rows, r2 \in rows}
        OneRowTable(id, row) == [id |-> id, tbody |-> Some(<<row>>)]
        BaseRow == [th |-> PlayerTh("Joel Embiid"), cells |-> BaseCells]
        \* Documents that vary the <strong> elements of the score box, with and
        \* without a stats table, and documents that vary its score texts, with one.
        ScoreboxSoups ==
            {Some([scorebox |-> sb, tables |-> t]) :
                sb \in {None} \cup {Some(b) : b \in StrongScoreboxes},
                t \in {<<>>, <<OneRowTable(Some(<<"box", "PHI", "game", "basic">>), BaseRow)>>}}
            \cup {Some([scorebox |-> Some(b),
                        tables |-> <<OneRowTable(Some(<<"box", "PHI", "game", "basic">>), BaseRow)>>]) :
                     b \in ScoreScoreboxes}
        \* Documents with a valid score box and one table of one row.
        RowSoups ==
            {Some([scorebox |-> Some(ValidScorebox), tables |-> <<OneRowTable(i, r)>>]) :
                i \in {Some(<<"box", "PHI", "game", "basic">>)}, r \in AllRows}
            \cup {Some([scorebox |-> Some(ValidScorebox), tables |-> <<OneRowTable(i, BaseRow)>>]) :
                i \in OtherTableIds}
        \* Documents with a valid score box and tables: several tables of at most one
        \* row (a player who played or one who did not), one table of several rows,
        \* and two tables of two rows each.
        TableSoups ==
            {Some([scorebox |-> Some(ValidScorebox), tables |-> t]) :
                t \in SeqsUpTo(Tables({r \in FewRows : r.th[1].a[1] # "Player EmptyStats"}, 1), MaxTables)
                       \cup {<<t1>> : t1 \in Tables(FewRows, MaxRows)}
                       \cup {<<t1, t2>> : t1 \in TwoRowTables(FewRows), t2 \in TwoRowTables(FewRows)}}
    IN {[soup |-> s, box_score_url |-> MilUrl] :
           s \in {None} \cup ScoreboxSoups \cup RowSoups \cup TableSoups}
       \cup {[soup |-> s, box_score_url |-> LalUrl] : s \in RowSoups}

\* Daily index documents: the anchors in document order, each with its link
\* target and the elements it sits in.
DailySoups ==
    LET Hrefs ==
            {Some(<<"/", "boxscores", "/", "202310260MIL", ".html">>),
             Some(<<"/", "boxscores", "/", "202310260LAL", ".html">>),
             Some(<<"/", "boxscores", "/", "pbp", "/", "202310260MIL", ".html">>),
             Some(<<"/", "boxscores", "/", "shot-chart", "/", "202310260MIL", ".html">>),
             Some(<<"/", "boxscores", "/", "plus-minus", "/", "202310260MIL", ".html">>),
             Some(<<"/", "boxscores", "/", "leaders", "/", "202310260MIL", ".html">>),
             Some(<<"/", "boxscores", "/", "?month=10&day=26&year=2023">>),
             Some(<<"/", "teams", "/", "boxscores", "/", "202310260MIL", ".html">>),
             Some(<<"/", "teams", "/", "MIL", "/", "2024", ".html">>),
             None}
        FewHrefs ==
            {Some(<<"/", "boxscores", "/", "202310260MIL", ".html">>),
             Some(<<"/", "boxscores", "/", "202310260LAL", ".html">>),
             Some(<<"/", "boxscores", "/", "pbp", "/", "202310260MIL", ".html">>)}
        \* Where an anchor sits: td.gamelink, div.game_summary, div.games_summaries.
        Places ==
            {[td |-> TRUE, summary |-> FALSE, summaries |-> FALSE],
             [td |-> TRUE, summary |-> TRUE, summaries |-> TRUE],
             [td |-> FALSE, summary |-> TRUE, summaries |-> FALSE],
             [td |-> FALSE, summary |-> FALSE, summaries |-> TRUE],
             [td |-> FALSE, summary |-> FALSE, summaries |-> FALSE]}
        FewPlaces ==
            {[td |-> TRUE, summary |-> TRUE, summaries |-> TRUE],
             [td |-> FALSE, summary |-> TRUE, summaries |-> FALSE]}
        Anchors(hrefs, places) ==
            {[href |-> h, in_gamelink_td |-> p.td, in_game_summary |-> p.summary,
              in_games_summaries |-> p.summaries] : h \in hrefs, p \in places}
    IN {None}
       \cup {Some(d) : d \in SeqsUpTo(Anchors(Hrefs, Places), 2)}
       \cup {Some(d) : d \in SeqsUpTo(Anchors(FewHrefs, FewPlaces), MaxAnchors)}

\* Arguments of get_month_numeric: the names of the dict and other texts, in
\* several cases, with and without blanks and trailing punctuation.
MonthStrs ==
    LET UpperChar(c) ==
            CASE c = "a" -> "A" [] c = "b" -> "B" [] c = "c" -> "C" [] c = "d" -> "D"
              [] c = "e" -> "E" [] c = "f" -> "F" [] c = "g" -> "G" [] c = "h" -> "H"
              [] c = "i" -> "I" [] c = "j" -> "J" [] c = "k" -> "K" [] c = "l" -> "L"
              [] c = "m" -> "M" [] c = "n" -> "N" [] c = "o" -> "O" [] c = "p" -> "P"
              [] c = "q" -> "Q" [] c = "r" -> "R" [] c = "s" -> "S" [] c = "t" -> "T"
              [] c = "u" -> "U" [] c = "v" -> "V" [] c = "w" -> "W" [] c = "x" -> "X"
              [] c = "y" -> "Y" [] c = "z" -> "Z" [] OTHER -> c
        \* A name in lower case, in upper case, capitalised, and with its second
        \* letter in upper case.
        CaseVariants(name) ==
            {name,
             [i \in 1..Len(name) |-> UpperChar(name[i])],
             [i \in 1..Len(name) |-> IF i = 1 THEN UpperChar(name[i]) ELSE name[i]],
             [i \in 1..Len(name) |-> IF i = 2 THEN UpperChar(name[i]) ELSE name[i]]}
        \* Texts that are no month name.
        OtherNames == {<<"f", "o", "o">>, <<"o", "c", "t", "o">>, <<"o", ".", "c", "t">>, <<"o", "c", "t", " ", "n", "o", "v">>, <<"n", "o", "v", "/", "d", "e", "c">>, <<"1", "3">>, <<"/">>, <<".">>}
    IN {None, Some(<<>>), Some(<<" ">>), Some(<<"O", "c", "t", ",">>), Some(<<"O", "c", "t", "/", "N", "o", "v">>), Some(<<"O", "c", "t", ".", " ", ".">>)}
       \cup {Some(before \o name \o after) :
                name \in UNION {CaseVariants(n) :
                                   n \in {e[1] : e \in MONTH_NAME_TO_NUMERIC} \cup OtherNames},
                before \in {<<>>, <<" ">>},
                after \in {<<>>, <<".">>, <<".", ".">>, <<" ">>, <<".", " ">>, <<",">>}}

\* Arguments of get_award_year.
SeasonStrs ==
    {None, Some(<<>>), Some(<<"2", "0", "2", "2", "-", "2", "3">>), Some(<<"2", "0", "2", "3", "-", "2", "0", "2", "4">>), Some(<<"1", "9", "9", "9", "-", "0", "0">>),
     Some(<<"2", "0", "2", "2">>), Some(<<"2", "0", "2", "2", "-", "2", "3", "-", "2", "4">>), Some(<<"a", "b", "c", "d", "-", "2", "3">>), Some(<<"2", "0", "2", "2", "-", "a", "b">>),
     Some(<<"-", "2", "3">>), Some(<<"2", "0", "2", "2", "-">>), Some(<<"-">>), Some(<<" ", "2", "0", "2", "2", "-", "2", "3">>), Some(<<"2", "0", "2", "2", " ", "-", "2", "3">>),
     Some(<<"2", "0", "_", "2", "2", "-", "2", "3">>), Some(<<"+", "2", "0", "2", "2", "-", "2", "3">>), Some(<<"2", "0", "2", "2", "/", "2", "3">>),
     Some(<<"2", "0", "2", SuperscriptTwo, "-", "2", "3">>)}

\* Arguments of parse_week_date_range: a header month and a day, a day range
\* or a range into a second month, closed up or spaced out.
WeekStrs ==
    LET HeaderMonths == {<<"O", "c", "t">>, <<"D", "e", "c", ".">>, <<"F", "e", "b">>, <<"J", "u", "l">>, <<"N", "O", "V">>, <<"F", "o", "o">>}
        EndMonths == {<<"J", "a", "n">>, <<"N", "o", "v">>, <<"A", "u", "g", ".">>}
        Days == {<<"3">>, <<"5">>, <<"7">>, <<"2", "4">>, <<"2", "8">>, <<"2", "9">>, <<"3", "0">>, <<"3", "1">>, <<"3", "2">>, <<"3", "5">>, <<"0">>,
                 <<"x">>, <<>>, <<"+", "5">>, <<"1", "_", "0">>, <<"-", "3">>, <<"2", SuperscriptTwo>>}
        FewDays == {<<"3">>, <<"5">>, <<"2", "4">>, <<"2", "8">>, <<"3", "0">>, <<"3", "2">>,
                    <<"3", "5">>, <<"x">>, <<>>}
    IN {None, Some(<<>>), Some(<<" ">>), Some(<<"O", "c", "t">>), Some(<<"O", "c", "t", ".", " ", "2", "4", "-", "3", "0">>), Some(<<"D", "e", "c", " ", "2", "8", "-", "J", "a", "n", " ", "3">>), Some(<<"O", "c", "t", " ", "2", "4", " ", "-", "3", "0">>),
        Some(<<"O", "c", "t", " ", "2", "4", "-", " ", "3", "0">>), Some(<<"O", "c", "t", " ", "2", "4", " ", "-", " ", "3", "0", " ", "e", "x", "t", "r", "a">>), Some(<<"2", "4", "-", "3", "0", " ", "O", "c", "t">>)}
       \cup {Some(h \o <<" ">> \o d) : h \in HeaderMonths, d \in Days}
       \cup {Some(h \o <<" ">> \o d1 \o <<"-">> \o d2) : h \in HeaderMonths, d1 \in Days, d2 \in FewDays}
       \cup {Some(h \o <<" ">> \o d1 \o <<" ", "-", " ">> \o d2) : h \in HeaderMonths, d1 \in FewDays, d2 \in FewDays}
       \cup {Some(h \o <<" ">> \o d1 \o <<"-">> \o m \o <<" ">> \o d2) :
                h \in HeaderMonths, d1 \in FewDays, m \in EndMonths,
                d2 \in {<<"3">>, <<"3", "0">>, <<"3", "5">>, <<"x">>, <<>>}}
       \cup {Some(h \o <<" ">> \o d1 \o <<" ", "-", " ">> \o m \o <<" ">> \o d2) :
                h \in HeaderMonths, d1 \in {<<"2", "4">>, <<"2", "8">>, <<"x">>}, m \in EndMonths,
                d2 \in {<<"3">>, <<"3", "5">>}}
       \cup {Some(h \o <<" ">> \o d1 \o <<"-">> \o d2 \o <<" ", "e", "x", "t", "r", "a">>) :
                h \in HeaderMonths, d1 \in {<<"2", "4">>, <<"x">>, <<>>}, d2 \in {<<"3", "0">>, <<"3", "2">>, <<>>}}

\* The date of the daily page the box score links come from (process_date).
GameDate == "2023-10-26"

\* Deliveries to the box score sink: a box score URL and what get_soup
\* returned for it (None: the fetch failed).
SinkPages ==
    LET MilUrl == "https://www.basketball-reference.com/boxscores/202310260MIL.html"
        LalUrl == "https://www.basketball-reference.com/boxscores/202310260LAL.html"
        Scorebox(second) ==
            Some([strongs |-> <<[a |-> Some("Philadelphia 76ers"), text |-> "Philadelphia 76ers (1-0)"],
                                [a |-> None, text |-> second]>>,
                  scores |-> <<<<"1", "1", "7">>, <<"1", "1", "8">>>>])
        Cells ==
            [c \in {"mp"} \cup StatFields |->
                IF c = "mp" THEN Some(<<"3", "6", ":", "2", "9">>)
                ELSE IF c \in IntFields THEN Some(<<"9">>)
                ELSE IF c \in RealFields THEN Some(<<".", "4", "2", "9">>)
                ELSE Some(<<"+", "2">>)]
        Table(team, name) ==
            [id |-> Some(<<"box", team, "game", "basic">>),
             tbody |-> Some(<<[th |-> Some([a |-> Some(name), text |-> name]), cells |-> Cells]>>)]
        Soups ==
            {Some([scorebox |-> Scorebox("Milwaukee Bucks"), tables |-> <<>>]),
             Some([scorebox |-> Scorebox("Milwaukee Bucks"), tables |-> <<Table("PHI", "Joel Embiid")>>]),
             Some([scorebox |-> Scorebox("Milwaukee Bucks"),
                   tables |-> <<Table("PHI", "Joel Embiid"), Table("MIL", "Damian Lillard")>>])}
        \* Pages that were not fetched, without a score box, with an empty or a
        \* single team name, and with a score that is no integer.
        Unextractable ==
            {None,
             Some([scorebox |-> None, tables |-> <<Table("PHI", "Joel Embiid")>>]),
             Some([scorebox |-> Scorebox(""), tables |-> <<Table("PHI", "Joel Embiid")>>]),
             Some([scorebox |-> Some([strongs |-> <<[a |-> None, text |-> "Milwaukee Bucks"]>>,
                                      scores |-> <<<<"1", "1", "7">>, <<"1", "1", "8">>>>]),
                   tables |-> <<Table("PHI", "Joel Embiid")>>]),
             Some([scorebox |-> Some([strongs |-> <<[a |-> Some("Philadelphia 76ers"), text |-> "Philadelphia 76ers (1-0)"],
                                                    [a |-> None, text |-> "Milwaukee Bucks"]>>,
                                      scores |-> <<<<"1", "1", "7">>, <<"1", "o", "0">>>>]),
                   tables |-> <<Table("PHI", "Joel Embiid")>>])}
    IN {[soup |-> s, box_score_url |-> MilUrl] : s \in Soups \cup Unextractable}
       \cup {[soup |-> s, box_score_url |-> LalUrl] : s \in {t \in Soups : Len(t[1].tables) = 2}}

\* Monthly award tables as fetched: None when the fetch or the table search
\* failed, else the rows of the table.
MonthlyTables ==
    LET Cell(t) == [a |-> None, text |-> t]
        Link(t) == [a |-> Some(t), text |-> t]
        Row(season, league, name, conf, month, team) ==
            [colhead |-> FALSE, season_header |-> None,
             cells |-> <<Cell(season), Cell(league), Link(name), Cell(conf), Cell(month), Link(team)>>]
        Base == Row(<<"2", "0", "2", "2", "-", "2", "3">>, <<"N", "B", "A">>, <<"J", "o", "e", "l", " ", "E", "m", "b", "i", "i", "d">>, <<"E", "a", "s", "t">>, <<"O", "c", "t", ".">>, <<"P", "H", "I">>)
        NoConf == Row(<<"2", "0", "2", "2", "-", "2", "3">>, <<"N", "B", "A">>, <<"J", "o", "e", "l", " ", "E", "m", "b", "i", "i", "d">>, <<>>, <<"O", "c", "t", ".">>, <<"P", "H", "I">>)
        OtherTeam == Row(<<"2", "0", "2", "2", "-", "2", "3">>, <<"N", "B", "A">>, <<"J", "o", "e", "l", " ", "E", "m", "b", "i", "i", "d">>, <<"E", "a", "s", "t">>, <<"O", "c", "t", ".">>, <<"M", "I", "L">>)
        Header == [colhead |-> TRUE, season_header |-> None, cells |-> <<>>]
        Rows ==
            {Base, NoConf, OtherTeam, Header,
             Row(<<"2", "0", "2", "2", "-", "2", "3">>, <<"N", "B", "A">>, <<"J", "o", "e", "l", " ", "E", "m", "b", "i", "i", "d">>, <<"W", "e", "s", "t">>, <<"O", "c", "t", ".">>, <<"P", "H", "I">>),
             Row(<<"2", "0", "2", "3", "-", "2", "4">>, <<"N", "B", "A">>, <<"J", "o", "e", "l", " ", "E", "m", "b", "i", "i", "d">>, <<"E", "a", "s", "t">>, <<"J", "a", "n">>, <<"P", "H", "I">>),
             Row(<<"2", "0", "2", "2", "-", "2", "3">>, <<"A", "B", "A">>, <<"J", "o", "e", "l", " ", "E", "m", "b", "i", "i", "d">>, <<"E", "a", "s", "t">>, <<"O", "c", "t", ".">>, <<"P", "H", "I">>),
             Row(<<"1", "9", "9", "9", "-", "0", "0">>, <<"N", "B", "A">>, <<"J", "o", "e", "l", " ", "E", "m", "b", "i", "i", "d">>, <<"E", "a", "s", "t">>, <<"O", "c", "t", ".">>, <<"P", "H", "I">>),
             Row(<<"a", "b", "c">>, <<"N", "B", "A">>, <<"J", "o", "e", "l", " ", "E", "m", "b", "i", "i", "d">>, <<"E", "a", "s", "t">>, <<"O", "c", "t", ".">>, <<"P", "H", "I">>),
             Row(<<"2", "0", "2", "2">>, <<"N", "B", "A">>, <<"J", "o", "e", "l", " ", "E", "m", "b", "i", "i", "d">>, <<"E", "a", "s", "t">>, <<"O", "c", "t", ".">>, <<"P", "H", "I">>),
             Row(<<"2", "0", "2", "2", "-", "2", "3">>, <<"N", "B", "A">>, <<"J", "o", "e", "l", " ", "E", "m", "b", "i", "i", "d">>, <<"E", "a", "s", "t">>, <<"F", "o", "o">>, <<"P", "H", "I">>),
             [colhead |-> FALSE, season_header |-> None, cells |-> <<Cell(<<"2", "0", "2", "2", "-", "2", "3">>), Cell(<<"N", "B", "A">>)>>]}
    IN {None} \cup {Some(<<r>>) : r \in Rows}
           \cup {Some(<<NoConf, NoConf>>), Some(<<Header, Base>>), Some(<<Base, OtherTeam>>)}
           \* An unknown month and an unreadable season before a valid row.
           \cup {Some(<<Row(<<"2", "0", "2", "2", "-", "2", "3">>, <<"N", "B", "A">>, <<"D", "a", "m", "i", "a", "n", " ", "L", "i", "l", "l", "a", "r", "d">>, <<"W", "e", "s", "t">>, <<"F", "o", "o">>, <<"M", "I", "L">>),
                        Row(<<"a", "b", "c">>, <<"N", "B", "A">>, <<"D", "a", "m", "i", "a", "n", " ", "L", "i", "l", "l", "a", "r", "d">>, <<"W", "e", "s", "t">>, <<"O", "c", "t", ".">>, <<"M", "I", "L">>), Base>>)}

\* Player of the week tables as fetched.
WeeklyTables ==
    LET Cell(t) == [a |-> None, text |-> t]
        Link(t) == [a |-> Some(t), text |-> t]
        SeasonRow(season) == [colhead |-> FALSE, season_header |-> Some(season), cells |-> <<>>]
        Data(league, week, name, conf, team) ==
            [colhead |-> FALSE, season_header |-> None,
             cells |-> <<Cell(league), Cell(week), Link(name), Cell(conf), Link(team)>>]
        WithSeason(season, row) == [row EXCEPT !.cells = <<Cell(season)>> \o @]
        Base == Data(<<"N", "B", "A">>, <<"O", "c", "t", " ", "2", "4", "-", "3", "0">>, <<"J", "o", "e", "l", " ", "E", "m", "b", "i", "i", "d">>, <<"E", "a", "s", "t">>, <<"P", "H", "I">>)
        NoConf == Data(<<"N", "B", "A">>, <<"O", "c", "t", " ", "2", "4", "-", "3", "0">>, <<"J", "o", "e", "l", " ", "E", "m", "b", "i", "i", "d">>, <<>>, <<"P", "H", "I">>)
        Header == [colhead |-> TRUE, season_header |-> None, cells |-> <<>>]
    IN {None, Some(<<Base>>), Some(<<Header, SeasonRow(<<"2", "0", "2", "2", "-", "2", "3">>), Base>>),
        Some(<<SeasonRow(<<"2", "0", "2", "2", "-", "2", "3">>), NoConf>>), Some(<<SeasonRow(<<"2", "0", "2", "2", "-", "2", "3">>), NoConf, NoConf>>),
        Some(<<SeasonRow(<<"2", "0", "2", "3", "-", "2", "4">>), Base>>), Some(<<SeasonRow(<<"a", "b", "c">>), Base>>),
        Some(<<SeasonRow(<<"1", "9", "9", "9", "-", "0", "0">>), Base>>),
        Some(<<SeasonRow(<<"2", "0", "2", "2", "-", "2", "3">>), Data(<<"N", "B", "A">>, <<"O", "c", "t", " ", "3", "2">>, <<"J", "o", "e", "l", " ", "E", "m", "b", "i", "i", "d">>, <<"E", "a", "s", "t">>, <<"P", "H", "I">>)>>),
        Some(<<SeasonRow(<<"2", "0", "2", "2", "-", "2", "3">>), Data(<<"A", "B", "A">>, <<"O", "c", "t", " ", "2", "4", "-", "3", "0">>, <<"J", "o", "e", "l", " ", "E", "m", "b", "i", "i", "d">>, <<"E", "a", "s", "t">>, <<"P", "H", "I">>)>>),
        Some(<<SeasonRow(<<"2", "0", "2", "2", "-", "2", "3">>), Data(<<"N", "B", "A">>, <<"D", "e", "c", " ", "2", "8", "-", "J", "a", "n", " ", "3">>, <<"J", "o", "e", "l", " ", "E", "m", "b", "i", "i", "d">>, <<"W", "e", "s", "t">>, <<"M", "I", "L">>)>>),
        Some(<<WithSeason(<<"2", "0", "2", "2", "-", "2", "3">>, Base)>>), Some(<<WithSeason(<<"2", "0", "2", "2", "-", "2", "3">>, NoConf)>>),
        Some(<<WithSeason(<<"2", "0", "2", "2", "--", "2", "3">>, Base)>>),
        Some(<<SeasonRow(<<"2", "0", "2", "3", "-", "2", "4">>), WithSeason(<<"2", "0", "2", SuperscriptTwo, "-", "2", "3">>, Base)>>),
        Some(<<SeasonRow(<<"2", "0", "2", "2", "-", "2", "3">>), [colhead |-> FALSE, season_header |-> None, cells |-> <<Cell(<<"N", "B", "A">>)>>]>>),
        \* Two seasons with a header that does not parse in between, a row with a
        \* season of its own under a header, and one followed by a row without.
        Some(<<SeasonRow(<<"2", "0", "2", "2", "-", "2", "3">>), SeasonRow(<<"a", "b", "c">>), Base, SeasonRow(<<"2", "0", "2", "3", "-", "2", "4">>), Base>>),
        Some(<<SeasonRow(<<"2", "0", "2", "2", "-", "2", "3">>), WithSeason(<<"2", "0", "2", "3", "-", "2", "4">>, Base), Base>>),
        Some(<<WithSeason(<<"2", "0", "2", "2", "-", "2", "3">>, Base), Base>>),
        \* A week that does not resolve before a valid row.
        Some(<<SeasonRow(<<"2", "0", "2", "2", "-", "2", "3">>), Data(<<"N", "B", "A">>, <<"O", "c", "t", " ", "3", "2">>, <<"D", "a", "m", "i", "a", "n", " ", "L", "i", "l", "l", "a", "r", "d">>, <<"W", "e", "s", "t">>, <<"M", "I", "L">>), Base>>)}

(***************************************************************************)
(* The state machine: an argument is handed to one of the extraction       *)
(* functions, which returns.                                               *)
(***************************************************************************)
NotCalled == [exc |-> NoException, ret |-> None, log |-> <<>>]

\* The variables of the functions that are not called hold no argument.
NoBoxScore == soup = None /\ box_score_url = "" /\ box_result = NotCalled
NoDaily == daily_soup = None /\ daily_result = [exc |-> NoException, urls |-> <<>>, log |-> <<>>]
NoMonth == month_str = None /\ month_result = None
NoAwardYear == season_str = None /\ month_numeric = None /\ year_result = NotCalled
NoWeek == week_str = None /\ effective_season_start_year = None /\ week_result = [exc |-> NoException, start |-> None, end |-> None, log |-> <<>>]
NoStore == db = InitDb /\ calls = <<>> /\ award_table = None
NoMain == args = None /\ total_games_processed = 0 /\ total_players_inserted = 0

InitBox ==
    /\ pc = "box_ready"
    /\ \E call \in BoxCalls : soup = call.soup /\ box_score_url = call.box_score_url
    /\ box_result = NotCalled
    /\ NoDaily /\ NoMonth /\ NoAwardYear /\ NoWeek /\ NoStore /\ NoMain

InitDaily ==
    /\ pc = "daily_ready"
    /\ daily_soup \in DailySoups
    /\ daily_result = [exc |-> NoException, urls |-> <<>>, log |-> <<>>]
    /\ NoBoxScore /\ NoMonth /\ NoAwardYear /\ NoWeek /\ NoStore /\ NoMain

InitMonth ==
    /\ pc = "month_ready"
    /\ month_str \in MonthStrs
    /\ month_result = None
    /\ NoBoxScore /\ NoDaily /\ NoAwardYear /\ NoWeek /\ NoStore /\ NoMain

InitAwardYear ==
    /\ pc = "year_ready"
    /\ season_str \in SeasonStrs
    /\ month_numeric \in ({None} \cup {Some(m) : m \in (0 - 1)..13})
    /\ year_result = NotCalled
    /\ NoBoxScore /\ NoDaily /\ NoMonth /\ NoWeek /\ NoStore /\ NoMain

InitWeek ==
    /\ pc = "week_ready"
    /\ week_str \in WeekStrs
    /\ effective_season_start_year \in ({None, Some(2022), Some(2023), Some(9999)})
    /\ week_result = [exc |-> NoException, start |-> None, end |-> None, log |-> <<>>]
    /\ NoBoxScore /\ NoDaily /\ NoMonth /\ NoAwardYear /\ NoStore /\ NoMain

\* get_games_data.py has opened the database and processes box scores.
InitGames ==
    /\ pc = "games_db"
    /\ NoBoxScore /\ NoDaily /\ NoMonth /\ NoAwardYear /\ NoWeek /\ NoStore /\ NoMain

\* get_monthly_weekly_awards.py has opened the database and scrapes awards.
InitAwards ==
    /\ pc = "awards_db"
    /\ NoBoxScore /\ NoDaily /\ NoMonth /\ NoAwardYear /\ NoWeek /\ NoStore /\ NoMain

Init ==
    InitBox \/ InitDaily \/ InitMonth \/ InitAwardYear \/ InitWeek \/ InitGames \/ InitAwards

\* parse_box_score_page has returned r: the result and the record of the call.
BoxReturned(r) ==
    /\ box_result' = r
    /\ calls' = Append(calls, [op |-> "parse_box_score_page", result |-> r])

\* A call of parse_box_score_page, and a second call on the same document
\* and source reference.
CallParseBoxScorePage ==
    /\ pc \in {"box_ready", "box_done"}
    /\ pc' = IF pc = "box_ready" THEN "box_done" ELSE "box_again"
    /\ BoxReturned(ParseBoxScorePage(soup, box_score_url))
    /\ UNCHANGED <<soup, box_score_url, daily_soup, daily_result, month_str, month_result,
                   season_str, month_numeric, year_result, week_str,
                   effective_season_start_year, week_result, db, award_table,
                   args, total_games_processed, total_players_inserted>>

\* The generator of parse_daily_games_page is exhausted, r being what it
\* yielded and logged: the result and the record of the call.
DailyReturned(r) ==
    /\ daily_result' = r
    /\ calls' = Append(calls, [op |-> "parse_daily_games_page", result |-> r])

\* A call of parse_daily_games_page, and a second call on the same document.
CallParseDailyGamesPage ==
    /\ pc \in {"daily_ready", "daily_done"}
    /\ pc' = IF pc = "daily_ready" THEN "daily_done" ELSE "daily_again"
    /\ DailyReturned(ParseDailyGamesPage(daily_soup, "https://www.basketball-reference.com/boxscores/?month=10&day=26&year=2023"))
    /\ UNCHANGED <<soup, box_score_url, box_result, daily_soup, month_str, month_result,
                   season_str, month_numeric, year_result, week_str,
                   effective_season_start_year, week_result, db, award_table,
                   args, total_games_processed, total_players_inserted>>

CallGetMonthNumeric ==
    /\ pc = "month_ready"
    /\ pc' = "month_done"
    /\ month_result' = GetMonthNumeric(month_str)
    /\ UNCHANGED <<soup, box_score_url, box_result, daily_soup, daily_result, month_str,
                   season_str, month_numeric, year_result, week_str,
                   effective_season_start_year, week_result, db, calls, award_table,
                   args, total_games_processed, total_players_inserted>>

CallGetAwardYear ==
    /\ pc = "year_ready"
    /\ pc' = "year_done"
    /\ year_result' = GetAwardYear(season_str, month_numeric)
    /\ UNCHANGED <<soup, box_score_url, box_result, daily_soup, daily_result, month_str,
                   month_result, season_str, month_numeric, week_str,
                   effective_season_start_year, week_result, db, calls, award_table,
                   args, total_games_processed, total_players_inserted>>

CallParseWeekDateRange ==
    /\ pc = "week_ready"
    /\ pc' = "week_done"
    /\ week_result' = ParseWeekDateRange(week_str, effective_season_start_year)
    /\ UNCHANGED <<soup, box_score_url, box_result, daily_soup, daily_result, month_str,
                   month_result, season_str, month_numeric, year_result, week_str,
                   effective_season_start_year, db, calls, award_table,
                   args, total_games_processed, total_players_inserted>>

\* The call has returned: the store and the record of the call.
Delivered(page, r) ==
    /\ db' = r.db
    /\ calls' = Append(calls, [op |-> "process_single_box_score", url |-> page.box_score_url,
                                soup |-> page.soup, exc |-> r.exc, ret |-> r.ret])

\* One call of process_single_box_score by the loop of process_date; an
\* exception of an earlier call has ended the run.
CallProcessSingleBoxScore ==
    /\ pc = "games_db"
    /\ Len(calls) < MaxDeliveries
    /\ \A k \in 1..Len(calls) : calls[k].exc = NoException
    /\ \E page \in SinkPages :
          Delivered(page, ProcessSingleBoxScore(db, page.soup, page.box_score_url, GameDate))
    /\ UNCHANGED <<pc, soup, box_score_url, box_result, daily_soup, daily_result, month_str,
                   month_result, season_str, month_numeric, year_result, week_str,
                   effective_season_start_year, week_result, award_table,
                   args, total_games_processed, total_players_inserted>>

\* A scrape function has returned: the award table it was handed, the table
\* of the store and the record of the call.
Scraped(op, award_type, page, r) ==
    /\ award_table' = page
    /\ db' = [db EXCEPT ![award_type] = r.table]
    /\ calls' = Append(calls, [op |-> op, award_type |-> award_type, exc |-> NoException,
                               ret |-> r.inserted_count, errors |-> r.errors])

\* One call of scrape_monthly_award by main: every table for the player of
\* the month, the failed fetch and the tables of two rows for the others.
CallScrapeMonthlyAward ==
    /\ pc = "awards_db"
    /\ Len(calls) < MaxAwardRuns
    /\ \E award \in {[award_type |-> "player_of_the_month", base_url |-> AWARD_URLS.pom, name_field |-> "player_name"],
                      [award_type |-> "rookie_of_the_month", base_url |-> AWARD_URLS.rom, name_field |-> "player_name"],
                      [award_type |-> "coach_of_the_month", base_url |-> AWARD_URLS.com, name_field |-> "coach_name"]} :
       \E table \in (IF award.award_type = "player_of_the_month" THEN MonthlyTables
                     ELSE {t \in MonthlyTables : t = None \/ Len(t[1]) = 2}) :
          Scraped("scrape_monthly_award", award.award_type, table,
                  ScrapeMonthlyAward(db[award.award_type], award.award_type, award.base_url,
                                     table, award.name_field))
    /\ UNCHANGED <<pc, soup, box_score_url, box_result, daily_soup, daily_result, month_str,
                   month_result, season_str, month_numeric, year_result, week_str,
                   effective_season_start_year, week_result,
                   args, total_games_processed, total_players_inserted>>

\* One call of scrape_player_of_the_week by main.
CallScrapePlayerOfTheWeek ==
    /\ pc = "awards_db"
    /\ Len(calls) < MaxAwardRuns
    /\ \E table \in WeeklyTables :
          Scraped("scrape_player_of_the_week", "player_of_the_week", table,
                  ScrapePlayerOfTheWeek(db["player_of_the_week"], AWARD_URLS.pow, table))
    /\ UNCHANGED <<pc, soup, box_score_url, box_result, daily_soup, daily_result, month_str,
                   month_result, season_str, month_numeric, year_result, week_str,
                   effective_season_start_year, week_result,
                   args, total_games_processed, total_players_inserted>>

Next ==
    \/ CallParseBoxScorePage
    \/ CallParseDailyGamesPage
    \/ CallGetMonthNumeric
    \/ CallGetAwardYear
    \/ CallParseWeekDateRange
    \/ CallProcessSingleBoxScore
    \/ CallScrapeMonthlyAward
    \/ CallScrapePlayerOfTheWeek

Spec == Init /\ [][Next]_vars

(***************************************************************************)
(* The driver of get_games_data.py: main with its loop over the dates.     *)
(* The loop is a sequential program that runs on until it has returned.    *)
(***************************************************************************)
\* main has opened the database and parsed its two date arguments.
InitMain ==
    /\ pc = "main_ready"
    /\ args \in LET Day(y, m, d) == [year |-> y, month |-> m, day |-> d]
                    NewYear == {Day(2023, 12, 30), Day(2023, 12, 31), Day(2024, 1, 1), Day(2024, 1, 2)}
                    LeapDay == {Day(2024, 2, 27), Day(2024, 2, 28), Day(2024, 2, 29), Day(2024, 3, 1)}
                IN {a \in [start_date : NewYear, end_date : NewYear]
                             \cup [start_date : LeapDay, end_date : LeapDay] :
                       Len(Daterange(a.start_date, a.end_date)) <= MaxDays}
    /\ total_games_processed = 0
    /\ total_players_inserted = 0
    /\ NoBoxScore /\ NoDaily /\ NoMonth /\ NoAwardYear /\ NoWeek /\ NoStore

\* Lines 420-424 of main: a start date after the end date ends the run with
\* sys.exit(1) before the loop.
CheckDates ==
    /\ pc = "main_ready"
    /\ pc' = IF \/ args.start_date.year > args.end_date.year
                \/ /\ args.start_date.year = args.end_date.year
                   /\ args.start_date.month > args.end_date.month
                \/ /\ args.start_date.year = args.end_date.year
                   /\ args.start_date.month = args.end_date.month
                   /\ args.start_date.day > args.end_date.day
             THEN "main_exit" ELSE "main_loop"
    /\ UNCHANGED <<soup, box_score_url, box_result, daily_soup, daily_result, month_str,
                   month_result, season_str, month_numeric, year_result, week_str,
                   effective_season_start_year, week_result, db, calls, award_table,
                   args, total_games_processed, total_players_inserted>>

\* One round of the loop of main (lines 426-429): the generator yields its
\* next date, process_date handles the box scores the daily page of that date
\* lists, and the totals grow by what it returns.  An exception ends main.
\* The daily page lists no box score, one that is stored with its two stat
\* lines, or one whose fetch fails followed by one that is stored.
CallProcessDate ==
    /\ pc = "main_loop"
    /\ \E dates \in {Daterange(args.start_date, args.end_date)} :
          /\ Len(calls) < Len(dates)
          /\ \E single_date_obj \in {dates[Len(calls) + 1]} :
             \E box_score_urls \in
                  LET Failed == CHOOSE p \in SinkPages : p.soup = None
                      Stored == {p \in SinkPages : p.soup # None /\ Len(p.soup[1].tables) = 2}
                  IN {<<>>}
                       \cup {<<p>> : p \in {l \in Stored : l.box_score_url = Failed.box_score_url}}
                       \cup {<<Failed, p>> : p \in {l \in Stored : l.box_score_url # Failed.box_score_url}} :
             \E r \in {ProcessDate([db |-> db, exc |-> NoException,
                                    games_processed_today |-> 0, players_inserted_today |-> 0],
                                   box_score_urls, Strftime(single_date_obj))} :
                /\ db' = r.db
                /\ calls' = Append(calls, [op |-> "process_date", date |-> single_date_obj,
                                           box_score_urls |-> box_score_urls, exc |-> r.exc,
                                           ret |-> <<r.games_processed_today, r.players_inserted_today>>])
                /\ pc' = IF r.exc = NoException THEN "main_loop" ELSE "main_raised"
                /\ total_games_processed' =
                      IF r.exc = NoException THEN total_games_processed + r.games_processed_today
                      ELSE total_games_processed
                /\ total_players_inserted' =
                      IF r.exc = NoException THEN total_players_inserted + r.players_inserted_today
                      ELSE total_players_inserted
    /\ UNCHANGED <<soup, box_score_url, box_result, daily_soup, daily_result, month_str,
                   month_result, season_str, month_numeric, year_result, week_str,
                   effective_season_start_year, week_result, award_table, args>>

\* The generator is exhausted: main closes the database and logs the two
\* totals (lines 431-435).
ReportTotals ==
    /\ pc = "main_loop"
    /\ Len(calls) = Len(Daterange(args.start_date, args.end_date))
    /\ pc' = "main_done"
    /\ UNCHANGED <<soup, box_score_url, box_result, daily_soup, daily_result, month_str,
                   month_result, season_str, month_numeric, year_result, week_str,
                   effective_season_start_year, week_result, db, calls, award_table,
                   args, total_games_processed, total_players_inserted>>

\* A run of main; the interpreter executes the next statement of a running
\* program, so a step that is possible is eventually taken.
DriverSpec ==
    /\ InitMain
    /\ [][CheckDates \/ CallProcessDate \/ ReportTotals]_vars
    /\ WF_vars(CheckDates \/ CallProcessDate \/ ReportTotals)

(***************************************************************************)
(* Properties of parse_box_score_page.                                     *)
(***************************************************************************)
Called == pc = "box_done"
Accepted == pc = "box_done" /\ box_result.ret # None
Game == box_result.ret[1]
HasScorebox == soup # None /\ soup[1].scorebox # None
Scorebox == soup[1].scorebox[1]

\* The five non-participation markers of the data model.
FiveMarkers ==
    {<<"D", "i", "d", " ", "N", "o", "t", " ", "P", "l", "a", "y">>, <<"N", "o", "t", " ", "W", "i", "t", "h", " ", "T", "e", "a", "m">>, <<"D", "i", "d", " ", "N", "o", "t", " ", "D", "r", "e", "s", "s">>, <<"I", "n", "a", "c", "t", "i", "v", "e">>, <<"P", "l", "a", "y", "e", "r", " ", "S", "u", "s", "p", "e", "n", "d", "e", "d">>}

NumericFields ==
    {"fg", "fga", "fg_pct", "fg3", "fg3a", "fg3_pct", "ft", "fta", "ft_pct", "orb",
     "drb", "trb", "ast", "stl", "blk", "tov", "pf", "pts"}

\* The rows of the basic stats tables that have a body, in document order,
\* each with the team abbreviation of its table.
RECURSIVE FlattenRows(_)
FlattenRows(tables) ==
    IF tables = <<>> THEN <<>>
    ELSE LET t == Head(tables)
         IN (IF IsBasicTable(t) /\ t.tbody # None
             THEN [i \in 1..Len(t.tbody[1]) |-> [row |-> t.tbody[1][i], team |-> t.id[1][2]]]
             ELSE <<>>) \o FlattenRows(Tail(tables))

HasPlayerLink(r) == r.th # None /\ r.th[1].a # None

\* The minutes field is missing, empty, or one of the five markers.
MinutesExcluded(r) ==
    \/ r.cells["mp"] = None
    \/ r.cells["mp"][1] = <<>>
    \/ r.cells["mp"][1] \in FiveMarkers

\* The rows for which a stat line is emitted.
EmitsLine(e) ==
    /\ HasPlayerLink(e.row)
    /\ e.row.cells["mp"] # None
    /\ Strip(e.row.cells["mp"][1]) # <<>>
    /\ Strip(e.row.cells["mp"][1]) \notin FiveMarkers

EmittingRows == SelectSeq(FlattenRows(soup[1].tables), EmitsLine)

IntegerText(t) == PyInt(t) # None

\* C1 as stated: a game record is returned exactly when the score box holds
\* exactly two team names and exactly two score texts and both scores parse
\* as integers; otherwise the page is rejected.
C1_ExactlyTwo ==
    Called =>
        /\ box_result.exc = NoException
        /\ box_result.ret # None <=>
              /\ HasScorebox
              /\ Len(Scorebox.strongs) = 2
              /\ Len(Scorebox.scores) = 2
              /\ IntegerText(Scorebox.scores[1])
              /\ IntegerText(Scorebox.scores[2])

\* C1 amended: a game record is returned exactly when the score box holds at
\* least two team names and at least two score texts and the first two score
\* texts parse as integers; otherwise the page is rejected with no game.
C1_AtLeastTwo ==
    Called =>
        /\ box_result.exc = NoException
        /\ box_result.ret # None <=>
              /\ HasScorebox
              /\ Len(Scorebox.strongs) >= 2
              /\ Len(Scorebox.scores) >= 2
              /\ IntegerText(Scorebox.scores[1])
              /\ IntegerText(Scorebox.scores[2])

\* A page with three team-name elements and three score texts was accepted.
C1_Witness ==
    /\ Accepted
    /\ Len(Scorebox.strongs) = 3
    /\ Len(Scorebox.scores) = 3

\* C2: a missing document, or a document without a score box, is rejected:
\* None is returned and nothing is raised, whatever tables it holds.
C2_NoScoreboxRejected ==
    Called /\ ~HasScorebox => box_result.ret = None /\ box_result.exc = NoException

\* A document without a score box but with a basic stats table of a
\* participating player was parsed.
C2_Witness ==
    /\ Called
    /\ soup # None
    /\ soup[1].scorebox = None
    /\ \E i \in 1..Len(FlattenRows(soup[1].tables)) : EmitsLine(FlattenRows(soup[1].tables)[i])

\* str(n)
DecimalText(n) == IF n < 0 THEN <<"-">> \o NaturalText(0 - n) ELSE NaturalText(n)

ScoreRange == (0 - 20)..200

\* C3: in an accepted page the first name and score are the away team's, the
\* second the home team's, and a score written as the decimal text of n is n.
C3_AwayFirstHomeSecond ==
    Accepted =>
        LET first == Strip(Scorebox.scores[1])
            second == Strip(Scorebox.scores[2])
        IN /\ Game.away_team = TeamName(Scorebox.strongs[1])
           /\ Game.home_team = TeamName(Scorebox.strongs[2])
           /\ \A n \in ScoreRange :
                 /\ first = DecimalText(n) => Game.away_score = n
                 /\ second = DecimalText(n) => Game.home_score = n

\* A page with two different names and two different scores was accepted.
C3_Witness ==
    /\ Accepted
    /\ Scorebox.scores[1] = DecimalText(117)
    /\ Scorebox.scores[2] = DecimalText(118)
    /\ Game.away_team = "Philadelphia 76ers"
    /\ Game.home_team = "Milwaukee Bucks"

\* C4: every emitted stat line has minutes that are present and none of the
\* five markers, and the lines are at most as many as the rows whose minutes
\* are not missing, empty or a marker, and carry names of such rows.
C4_NonParticipantsOmitted ==
    Accepted =>
        LET rows == FlattenRows(soup[1].tables)
            included == {j \in 1..Len(rows) :
                            HasPlayerLink(rows[j].row) /\ ~MinutesExcluded(rows[j].row)}
        IN /\ \A i \in 1..Len(Game.players) :
                 /\ Game.players[i].mp # <<>>
                 /\ Game.players[i].mp \notin FiveMarkers
                 /\ \E j \in included : rows[j].row.th[1].a[1] = Game.players[i].player_name
           /\ Len(Game.players) <= Cardinality(included)

\* An accepted page had a linked player whose minutes are a marker.
C4_Witness ==
    /\ Accepted
    /\ \E j \in 1..Len(FlattenRows(soup[1].tables)) :
          /\ HasPlayerLink(FlattenRows(soup[1].tables)[j].row)
          /\ FlattenRows(soup[1].tables)[j].row.cells["mp"] # None
          /\ FlattenRows(soup[1].tables)[j].row.cells["mp"][1] \in FiveMarkers

\* C5: the stat lines are those of the participating rows, and a numeric field
\* whose cell is missing or holds the empty string is absent.
C5_EmptyIsAbsent ==
    Accepted =>
        /\ Len(Game.players) = Len(EmittingRows)
        /\ \A i \in 1..Len(Game.players) : \A f \in NumericFields :
              (EmittingRows[i].row.cells[f] = None \/ EmittingRows[i].row.cells[f][1] = <<>>)
                  => Game.players[i][f] = None

\* A stat line was emitted for a row whose count and percentage cells hold
\* the empty string.
C5_Witness ==
    /\ Accepted
    /\ Len(Game.players) = 1
    /\ Len(EmittingRows) = 1
    /\ EmittingRows[1].row.cells["pts"] = Some(<<>>)
    /\ EmittingRows[1].row.cells["fg_pct"] = Some(<<>>)
    /\ Game.players[1]["pts"] = None

\* A cell text that is not blank and holds no digit at all, such as "abc".
NonNumericText(cell) ==
    /\ cell # None
    /\ Strip(cell[1]) # <<>>
    /\ \A k \in 1..Len(cell[1]) : cell[1][k] \notin Digits

\* The diagnostics of the conversions that name field f, player p and the page.
ConversionWarnings(f, p) ==
    SelectSeq(box_result.log,
              LAMBDA e : /\ e.level = "warning"
                         /\ e.msg \in {"could not convert to INTEGER", "could not convert to REAL"}
                         /\ e.stat = f
                         /\ e.player = p
                         /\ e.url = box_score_url)

\* C6 as stated: nothing is raised, every participating row gives a stat line,
\* and a numeric field whose cell holds non-numeric content is absent, with one
\* conversion diagnostic naming the field, the player and the page for each
\* such cell.
C6_NonNumericIsAbsent ==
    Called =>
        /\ box_result.exc = NoException
        /\ Accepted =>
              /\ Len(Game.players) = Len(EmittingRows)
              /\ \A i \in 1..Len(EmittingRows) : \A f \in NumericFields :
                    NonNumericText(EmittingRows[i].row.cells[f]) =>
                        /\ Game.players[i][f] = None
                        /\ Len(ConversionWarnings(f, EmittingRows[i].row.th[1].a[1]))
                             = Cardinality({j \in 1..Len(EmittingRows) :
                                   /\ EmittingRows[j].row.th[1].a[1] = EmittingRows[i].row.th[1].a[1]
                                   /\ NonNumericText(EmittingRows[j].row.cells[f])})

\* A stat line was emitted whose field-goal percentage cell reads "nan": the
\* field holds a not-a-number float and no conversion diagnostic was logged.
C6_Witness ==
    /\ Accepted
    /\ Len(EmittingRows) = 1
    /\ EmittingRows[1].row.cells["fg_pct"] = Some(<<"n", "a", "n">>)
    /\ Game.players[1]["fg_pct"] = Some(NaN(FALSE))
    /\ ConversionWarnings("fg_pct", EmittingRows[1].row.th[1].a[1]) = <<>>

(***************************************************************************)
(* Properties of parse_daily_games_page.                                   *)
(***************************************************************************)
DailyCalled == pc = "daily_done"

SubPageMarkers == {"pbp", "shot-chart", "plus-minus", "leaders"}

\* A link target of a box score page proper.
BoxScoreTarget(h) ==
    /\ Len(h) >= 4
    /\ SubSeq(h, 1, 3) = <<"/", "boxscores", "/">>
    /\ h[Len(h)] = ".html"
    /\ \A m \in SubPageMarkers : ~Contains(h, <<"/", m, "/">>)

Reference(a) == <<SitePrefix>> \o a.href[1]

PrimaryMatches == SelectSeq(daily_soup[1], MatchesPrimary)
FallbackMatches == SelectSeq(daily_soup[1], MatchesFallback)

\* The references of the box score links among the anchors, in document order.
FilteredRefs(anchors) ==
    LET kept == SelectSeq(anchors, LAMBDA a : BoxScoreTarget(a.href[1]))
    IN [i \in 1..Len(kept) |-> Reference(kept[i])]

\* C8: the references are the filtered links of the primary selector when
\* there are any, and otherwise the filtered links of the fallback selector;
\* a missing document and a document without any match give the empty
\* sequence; nothing is raised.
C8_PrimaryElseFallback ==
    DailyCalled =>
        /\ daily_result.exc = NoException
        /\ daily_result.urls =
              IF daily_soup = None THEN <<>>
              ELSE LET primary == FilteredRefs(PrimaryMatches)
                   IN IF primary # <<>> THEN primary ELSE FilteredRefs(FallbackMatches)

\* A document with no primary match and one fallback match gave one reference.
C8_Witness ==
    /\ DailyCalled
    /\ daily_soup # None
    /\ PrimaryMatches = <<>>
    /\ Len(FallbackMatches) = 1
    /\ Len(daily_result.urls) = 1

\* C9: every reference is the site prefix followed by the link target of an
\* anchor of the document, and that target starts with /boxscores/, ends with
\* .html and contains none of the four sub-page markers.
C9_OnlyBoxScoreTargets ==
    DailyCalled =>
        \A i \in 1..Len(daily_result.urls) :
            /\ daily_result.urls[i][1] = SitePrefix
            /\ BoxScoreTarget(Tail(daily_result.urls[i]))
            /\ \E k \in 1..Len(daily_soup[1]) :
                  /\ daily_soup[1][k].href # None
                  /\ daily_soup[1][k].href[1] = Tail(daily_result.urls[i])

\* A document with a leaders sub-page link and a box score link under the
\* primary selector gave the box score's reference only.
C9_Witness ==
    /\ DailyCalled
    /\ daily_soup # None
    /\ Len(PrimaryMatches) = 2
    /\ Contains(PrimaryMatches[1].href[1], <<"/", "leaders", "/">>)
    /\ daily_result.urls = <<Reference(PrimaryMatches[2])>>

\* C10 as stated: no reference is yielded more than once.
C10_NoDuplicates ==
    DailyCalled =>
        \A i, j \in 1..Len(daily_result.urls) :
            i # j => daily_result.urls[i] # daily_result.urls[j]

\* Two anchors under the primary selector carry the same link target, and its
\* reference was yielded twice.
C10_Witness ==
    /\ DailyCalled
    /\ daily_soup # None
    /\ Len(daily_soup[1]) = 2
    /\ daily_soup[1][1] = daily_soup[1][2]
    /\ Len(daily_result.urls) = 2
    /\ daily_result.urls[1] = daily_result.urls[2]

(***************************************************************************)
(* Properties of all five extraction functions.                            *)
(***************************************************************************)
\* C7: no exception propagates out of parse_box_score_page,
\* parse_daily_games_page, get_month_numeric, get_award_year or
\* parse_week_date_range, whatever the document or text: the page is rejected
\* or parsed, the month and the year are absent or numbers, and the week is a
\* pair of absent values or a pair of dates.
C7_NoExceptionPropagates ==
    /\ Called => box_result.exc = NoException
    /\ DailyCalled => daily_result.exc = NoException
    /\ pc = "month_done" => month_result = None \/ month_result[1] \in 1..12
    /\ pc = "year_done" =>
          /\ year_result.exc = NoException
          /\ year_result.ret = None \/ year_result.ret[1] \in Int
    /\ pc = "week_done" =>
          /\ week_result.exc = NoException
          /\ (week_result.start = None) <=> (week_result.end = None)

\* A week text with an invalid day made datetime raise inside
\* parse_week_date_range, which logged the error and returned absent values.
C7_Witness ==
    /\ pc = "week_done"
    /\ week_str = Some(<<"O", "c", "t", " ", "3", "2", "-", "3", "5">>)
    /\ effective_season_start_year = Some(2023)
    /\ week_result.start = None
    /\ week_result.end = None
    /\ week_result.log = <<LogEntry("error", "ValueError parsing week string", "", "", "")>>

(***************************************************************************)
(* Properties of get_month_numeric.                                        *)
(***************************************************************************)
MonthCalled == pc = "month_done"

\* The names the function recognises: the keys of the dict without a period.
RecognisedNames == {e \in MONTH_NAME_TO_NUMERIC : "." \notin {e[1][i] : i \in 1..Len(e[1])}}

\* The argument is a case variant of the name followed by the given text.
IsVariantWith(name, trailing) ==
    /\ month_str # None
    /\ Len(month_str[1]) = Len(name) + Len(trailing)
    /\ \A i \in 1..Len(name) : LowerChar(month_str[1][i]) = name[i]
    /\ SubSeq(month_str[1], Len(name) + 1, Len(month_str[1])) = trailing

CalendarNames ==
    <<<<"j", "a", "n", "u", "a", "r", "y">>, <<"f", "e", "b", "r", "u", "a", "r", "y">>, <<"m", "a", "r", "c", "h">>, <<"a", "p", "r", "i", "l">>, <<"m", "a", "y">>, <<"j", "u", "n", "e">>, <<"j", "u", "l", "y">>, <<"a", "u", "g", "u", "s", "t">>, <<"s", "e", "p", "t", "e", "m", "b", "e", "r">>, <<"o", "c", "t", "o", "b", "e", "r">>, <<"n", "o", "v", "e", "m", "b", "e", "r">>, <<"d", "e", "c", "e", "m", "b", "e", "r">>>>

\* The full names, the three-letter abbreviations and the compound name, each
\* with its calendar number.
NamedMonths ==
    {<<CalendarNames[i], i>> : i \in 1..12}
        \cup {<<SubSeq(CalendarNames[i], 1, 3), i>> : i \in 1..12}
        \cup {<<<<"o", "c", "t", "/", "n", "o", "v">>, 11>>}

\* The argument, lowered and without surrounding blanks, is the name followed
\* by periods only.
NamesMonth(name) ==
    /\ month_str # None
    /\ \E k \in 0..Len(month_str[1]) :
          Strip(Lower(month_str[1])) = name \o [i \in 1..k |-> "."]

\* C12 as stated: the result is absent or an integer in 1..12; each full name,
\* each three-letter abbreviation and "Oct/Nov" maps to its number; and every
\* other input (one that is not such a name in some case, with trailing
\* punctuation and surrounding blanks allowed) gives an absent result.
C12_AbsentForEveryOtherInput ==
    MonthCalled =>
        /\ month_result = None \/ month_result[1] \in 1..12
        /\ \A e \in NamedMonths : IsVariantWith(e[1], <<>>) => month_result = Some(e[2])
        /\ (\A e \in NamedMonths : ~NamesMonth(e[1])) => month_result = None

\* C12 amended: the result is absent or an integer in 1..12; each full name,
\* each three-letter abbreviation and "Oct/Nov" maps to its number; and the
\* result is absent exactly when the input is missing, empty, or is none of
\* these names once lowered, trimmed of surrounding blanks and freed of all
\* of its periods, wherever they stand.
C12_AbsentUnlessNamed ==
    MonthCalled =>
        /\ month_result = None \/ month_result[1] \in 1..12
        /\ \A e \in NamedMonths : IsVariantWith(e[1], <<>>) => month_result = Some(e[2])
        /\ \A e \in NamedMonths :
              month_str # None /\ RemoveDots(Strip(Lower(month_str[1]))) = e[1]
                  => month_result = Some(e[2])
        /\ (month_str = None
               \/ \A e \in NamedMonths : RemoveDots(Strip(Lower(month_str[1]))) # e[1])
              => month_result = None

\* "Oct/Nov" was resolved to 11.
C12_Witness ==
    /\ MonthCalled
    /\ month_str = Some(<<"O", "c", "t", "/", "N", "o", "v">>)
    /\ month_result = Some(11)

(***************************************************************************)
(* Properties of get_award_year.                                           *)
(***************************************************************************)
YearCalled == pc = "year_done"

\* A non-empty text of decimal digits.
NumericPart(t) == t # <<>> /\ \A i \in 1..Len(t) : t[i] \in Digits

\* The number a text of decimal digits denotes.
RECURSIVE DecimalValue(_)
DecimalValue(t) ==
    IF t = <<>> THEN 0
    ELSE 10 * DecimalValue(SubSeq(t, 1, Len(t) - 1)) + DigitVal(t[Len(t)])

\* The season label is two numeric parts joined by one hyphen.
TwoNumericParts(label) ==
    \E k \in 1..Len(label) :
        /\ label[k] = "-"
        /\ NumericPart(SubSeq(label, 1, k - 1))
        /\ NumericPart(SubSeq(label, k + 1, Len(label)))

\* The starting year of a season label of two numeric parts.
StartingYear(label) == DecimalValue(SubSeq(label, 1, FindChar(label, {"-"}, 1) - 1))

\* C13: get_award_year raises nothing; it returns absent when the season
\* label is missing or is not two hyphen-joined numeric parts, or the month is
\* missing or outside 1..12; otherwise it returns the season's starting year
\* for months 8..12 and the starting year plus one for months 1..7.
C13_SeasonYearSplit ==
    YearCalled =>
        /\ year_result.exc = NoException
        /\ year_result.ret =
              IF \/ season_str = None
                 \/ month_numeric = None
                 \/ ~TwoNumericParts(season_str[1])
                 \/ month_numeric[1] \notin 1..12
              THEN None
              ELSE IF month_numeric[1] \in 8..12
              THEN Some(StartingYear(season_str[1]))
              ELSE Some(StartingYear(season_str[1]) + 1)

\* The boundary month 7 of season "2022-23" gave 2023.
C13_Witness ==
    /\ YearCalled
    /\ season_str = Some(<<"2", "0", "2", "2", "-", "2", "3">>)
    /\ month_numeric = Some(7)
    /\ year_result.ret = Some(2023)

(***************************************************************************)
(* Properties of parse_week_date_range.                                    *)
(***************************************************************************)
WeekCalled == pc = "week_done"

\* Both arguments of the call are present.
WeekGiven == week_str # None /\ week_str[1] # <<>> /\ effective_season_start_year # None

\* The whitespace-separated tokens of the week text without its periods.
WeekTokens == SplitWhitespace(RemoveDots(week_str[1]))

\* The calendar number a token names, or 0 when it names no month.
MonthNumber(token) ==
    IF \E e \in NamedMonths : Lower(token) = e[1]
    THEN (CHOOSE e \in NamedMonths : Lower(token) = e[1])[2]
    ELSE 0

\* The calendar year of a date in the given month of the season.
SeasonYear(month) ==
    IF month >= 8 THEN effective_season_start_year[1]
    ELSE effective_season_start_year[1] + 1

\* A date of the calendar with a four-digit year.
ValidDate(year, month, day) ==
    /\ year \in 1000..9999
    /\ month \in 1..12
    /\ day >= 1
    /\ day <= (IF month = 2 THEN (IF IsLeap(year) THEN 29 ELSE 28)
               ELSE IF month \in {4, 6, 9, 11} THEN 30 ELSE 31)

DigitChar(n) == <<"0", "1", "2", "3", "4", "5", "6", "7", "8", "9">>[n + 1]

\* The date as YYYY-MM-DD.
IsoDate(year, month, day) ==
    <<DigitChar(year \div 1000), DigitChar((year \div 100) % 10), DigitChar((year \div 10) % 10), DigitChar(year % 10), "-",
      DigitChar(month \div 10), DigitChar(month % 10), "-", DigitChar(day \div 10), DigitChar(day % 10)>>

\* The result is the pair of the two dates when both exist, and is an absent
\* pair otherwise.
WeekIs(y1, m1, d1, y2, m2, d2) ==
    IF ValidDate(y1, m1, d1) /\ ValidDate(y2, m2, d2)
    THEN /\ week_result.start = Some(IsoDate(y1, m1, d1))
         /\ week_result.end = Some(IsoDate(y2, m2, d2))
    ELSE week_result.start = None /\ week_result.end = None

\* The text before and after the first hyphen of the second token.
StartText == SubSeq(WeekTokens[2], 1, FindChar(WeekTokens[2], {"-"}, 1) - 1)
EndText == SubSeq(WeekTokens[2], FindChar(WeekTokens[2], {"-"}, 1) + 1, Len(WeekTokens[2]))

\* The week text reads "Month D1-MonthName D2".
MonthCrossingForm ==
    /\ WeekGiven
    /\ Len(WeekTokens) = 3
    /\ MonthNumber(WeekTokens[1]) > 0
    /\ FindChar(WeekTokens[2], {"-"}, 1) > 0
    /\ NumericPart(StartText)
    /\ MonthNumber(EndText) > 0
    /\ NumericPart(WeekTokens[3])

\* C14: for a month-crossing text "Month D1-MonthName D2" the start date is
\* day D1 of the header month in the season year of that month, the end date
\* is day D2 of the named second month, and the end year is the start year
\* unless the end month's number is less than the start month's number, in
\* which case it is the start year plus one.
C14_MonthCrossing ==
    WeekCalled /\ MonthCrossingForm =>
        WeekIs(SeasonYear(MonthNumber(WeekTokens[1])),
               MonthNumber(WeekTokens[1]),
               DecimalValue(StartText),
               IF MonthNumber(EndText) < MonthNumber(WeekTokens[1])
               THEN SeasonYear(MonthNumber(WeekTokens[1])) + 1
               ELSE SeasonYear(MonthNumber(WeekTokens[1])),
               MonthNumber(EndText),
               DecimalValue(WeekTokens[3]))

\* "Dec 28-Jan 3" of the season starting in 2022 gave 2022-12-28 and
\* 2023-01-03.
C14_Witness ==
    /\ WeekCalled
    /\ week_str = Some(<<"D", "e", "c", " ", "2", "8", "-", "J", "a", "n", " ", "3">>)
    /\ effective_season_start_year = Some(2022)
    /\ week_result.start = Some(<<"2", "0", "2", "2", "-", "1", "2", "-", "2", "8">>)
    /\ week_result.end = Some(<<"2", "0", "2", "3", "-", "0", "1", "-", "0", "3">>)

\* The week text reads "Month D1-D2", closed up.
DayRangeForm ==
    /\ WeekGiven
    /\ Len(WeekTokens) = 2
    /\ MonthNumber(WeekTokens[1]) > 0
    /\ FindChar(WeekTokens[2], {"-"}, 1) > 0
    /\ NumericPart(StartText)
    /\ NumericPart(EndText)

\* The week text reads "Month D".
SingleDayForm ==
    /\ WeekGiven
    /\ Len(WeekTokens) = 2
    /\ MonthNumber(WeekTokens[1]) > 0
    /\ NumericPart(WeekTokens[2])

\* C15: in the same-month forms both dates lie in the header month and in one
\* calendar year, the season start year for header months 8..12 and the
\* season start year plus one for header months 1..7; "Month D1-D2" gives
\* days D1 and D2, and "Month D" gives a one-day week.
C15_SameMonth ==
    WeekCalled =>
        /\ DayRangeForm =>
              WeekIs(IF MonthNumber(WeekTokens[1]) \in 8..12
                     THEN effective_season_start_year[1]
                     ELSE effective_season_start_year[1] + 1,
                     MonthNumber(WeekTokens[1]),
                     DecimalValue(StartText),
                     IF MonthNumber(WeekTokens[1]) \in 8..12
                     THEN effective_season_start_year[1]
                     ELSE effective_season_start_year[1] + 1,
                     MonthNumber(WeekTokens[1]),
                     DecimalValue(EndText))
        /\ SingleDayForm =>
              /\ week_result.start = week_result.end
              /\ WeekIs(IF MonthNumber(WeekTokens[1]) \in 8..12
                        THEN effective_season_start_year[1]
                        ELSE effective_season_start_year[1] + 1,
                        MonthNumber(WeekTokens[1]),
                        DecimalValue(WeekTokens[2]),
                        IF MonthNumber(WeekTokens[1]) \in 8..12
                        THEN effective_season_start_year[1]
                        ELSE effective_season_start_year[1] + 1,
                        MonthNumber(WeekTokens[1]),
                        DecimalValue(WeekTokens[2]))

\* "Feb 7" of the season starting in 2022 gave the one-day week 2023-02-07.
C15_Witness ==
    /\ WeekCalled
    /\ week_str = Some(<<"F", "e", "b", " ", "7">>)
    /\ effective_season_start_year = Some(2022)
    /\ week_result.start = Some(<<"2", "0", "2", "3", "-", "0", "2", "-", "0", "7">>)
    /\ week_result.end = Some(<<"2", "0", "2", "3", "-", "0", "2", "-", "0", "7">>)

\* The week text reads "Month D1 - D2": four tokens, the third a hyphen.
SpacedForm == WeekGiven /\ Len(WeekTokens) = 4 /\ WeekTokens[3] = <<"-">>

\* The number of tokens that remain once the spaced form is rejoined.
RemainingTokens == IF SpacedForm THEN 2 ELSE Len(WeekTokens)

\* The closed-up text "Month D1-D2" of a week text in the spaced form.
ClosedUp == WeekTokens[1] \o <<" ">> \o WeekTokens[2] \o <<"-">> \o WeekTokens[4]

WeekAbsentPair == week_result.start = None /\ week_result.end = None

\* C16: a week text is resolved only when two or three tokens remain after
\* its periods are stripped, it is split on whitespace and the four-token form
\* "Month D1 - D2" is rejoined; every other token count gives an absent pair;
\* the spaced form gives what its closed-up text "Month D1-D2" gives.
C16_TokenCount ==
    WeekCalled /\ WeekGiven =>
        /\ week_result.exc = NoException
        /\ RemainingTokens \notin {2, 3} => WeekAbsentPair
        /\ SpacedForm =>
              LET closed == ParseWeekDateRange(Some(ClosedUp), effective_season_start_year)
              IN week_result.start = closed.start /\ week_result.end = closed.end

\* "Oct 24 - 30" of the season starting in 2022 gave 2022-10-24 and
\* 2022-10-30.
C16_Witness ==
    /\ WeekCalled
    /\ week_str = Some(<<"O", "c", "t", " ", "2", "4", " ", "-", " ", "3", "0">>)
    /\ effective_season_start_year = Some(2022)
    /\ week_result.start = Some(<<"2", "0", "2", "2", "-", "1", "0", "-", "2", "4">>)
    /\ week_result.end = Some(<<"2", "0", "2", "2", "-", "1", "0", "-", "3", "0">>)

\* A day text that is no number: it is empty or holds a character that is
\* neither a decimal digit, a sign, an underscore nor a blank.
UnparseableDay(t) ==
    t = <<>> \/ \E i \in 1..Len(t) : t[i] \notin Digits \cup {"+", "-", "_", " "}

HasHyphen(token) == FindChar(token, {"-"}, 1) > 0

\* The failures of a week text with a known header month in two or three
\* tokens: an unparseable day, a month-crossing form without an end-day
\* token, a dangling hyphen.
MalformedDays ==
    /\ Len(WeekTokens) \in {2, 3}
    /\ MonthNumber(WeekTokens[1]) > 0
    /\ \/ ~HasHyphen(WeekTokens[2]) /\ UnparseableDay(WeekTokens[2])
       \/ HasHyphen(WeekTokens[2]) /\ UnparseableDay(StartText)
       \/ /\ HasHyphen(WeekTokens[2])
          /\ MonthNumber(EndText) = 0
          /\ UnparseableDay(EndText)
       \/ /\ HasHyphen(WeekTokens[2])
          /\ MonthNumber(EndText) > 0
          /\ Len(WeekTokens) = 2 \/ UnparseableDay(WeekTokens[3])

\* The day a single-day or day-range text names does not exist in its month.
NoSuchDay(day_text) ==
    /\ NumericPart(day_text)
    /\ ~ValidDate(SeasonYear(MonthNumber(WeekTokens[1])), MonthNumber(WeekTokens[1]), DecimalValue(day_text))

InvalidCalendarDate ==
    \/ SingleDayForm /\ NoSuchDay(WeekTokens[2])
    \/ DayRangeForm /\ (NoSuchDay(StartText) \/ NoSuchDay(EndText))
    \/ MonthCrossingForm /\ NoSuchDay(StartText)

\* C17: parse_week_date_range raises nothing; its result is two absent values
\* or two dates, never one of each; and a missing text or season year, an
\* unknown header month, an unparseable day, a month-crossing form without
\* an end-day token, a dangling hyphen and a day that does not exist in its
\* month (such as day 32, which is not clamped) each give the absent pair.
C17_FailuresGiveAbsentPair ==
    WeekCalled =>
        /\ week_result.exc = NoException
        /\ week_result.start = None <=> week_result.end = None
        /\ ~WeekGiven => WeekAbsentPair
        /\ WeekGiven /\ WeekTokens # <<>> /\ MonthNumber(WeekTokens[1]) = 0 => WeekAbsentPair
        /\ WeekGiven /\ MalformedDays => WeekAbsentPair
        /\ WeekGiven /\ InvalidCalendarDate => WeekAbsentPair

\* "Oct 32" of the season starting in 2022 gave the absent pair.
C17_Witness ==
    /\ WeekCalled
    /\ week_str = Some(<<"O", "c", "t", " ", "3", "2">>)
    /\ effective_season_start_year = Some(2022)
    /\ WeekAbsentPair
    /\ week_result.exc = NoException

(***************************************************************************)
(* Properties of the box score sink (process_single_box_score).            *)
(***************************************************************************)
GamesOpen == pc = "games_db"

Games == db["games"].rows
PlayerStats == db["player_stats"].rows

\* Every call so far delivered the same document for the same URL.
SamePageOnly ==
    /\ calls # <<>>
    /\ \A k \in 1..Len(calls) : calls[k].url = calls[1].url /\ calls[k].soup = calls[1].soup

\* The store after a single delivery of the first call's page to a new store.
SingleDelivery == ProcessSingleBoxScore(InitDb, calls[1].soup, calls[1].url, GameDate).db

\* C19 as stated: when one box score page has been delivered one or more
\* times with an identical document, the games and player_stats tables hold
\* the rows that a single delivery leaves.
C19_RedeliveryAddsNoRow ==
    GamesOpen /\ SamePageOnly =>
        /\ Games = SingleDelivery["games"].rows
        /\ PlayerStats = SingleDelivery["player_stats"].rows

\* One page with one player was delivered twice: one game row, and two stat
\* rows for the same player and game.
C19_Witness ==
    /\ GamesOpen
    /\ Len(calls) = 2
    /\ SamePageOnly
    /\ Len(Games) = 1
    /\ Len(SingleDelivery["player_stats"].rows) = 1
    /\ Len(PlayerStats) = 2
    /\ PlayerStats[1].player_name = PlayerStats[2].player_name
    /\ PlayerStats[1].game_id = PlayerStats[2].game_id

\* The number of stat rows a call reported as inserted.
Inserted(call) == IF call.exc = NoException THEN call.ret[2] ELSE 0

\* The number of stat rows the first k calls inserted.
RECURSIVE InsertedBy(_)
InsertedBy(k) == IF k = 0 THEN 0 ELSE InsertedBy(k - 1) + Inserted(calls[k])

\* C20: the games table holds at most one row per box_score_url, and every
\* player_stats row that a call inserted carries the id of the games row of
\* the call's URL, whether that row was inserted by this call or before it.
C20_StatsCarryGameId ==
    GamesOpen =>
        /\ \A i, j \in 1..Len(Games) :
              i # j => Games[i].box_score_url # Games[j].box_score_url
        /\ Len(PlayerStats) = InsertedBy(Len(calls))
        /\ \A k \in 1..Len(calls) : \A n \in (InsertedBy(k - 1) + 1)..InsertedBy(k) :
              \E g \in 1..Len(Games) :
                  /\ Games[g].box_score_url = Some(calls[k].url)
                  /\ PlayerStats[n].game_id = Games[g].id

\* Three deliveries, the third for the URL of the first: two game rows, and
\* the stat rows of the third call carry the id of the first game row.
C20_Witness ==
    /\ GamesOpen
    /\ Len(calls) = 3
    /\ calls[1].url = calls[3].url
    /\ calls[1].url # calls[2].url
    /\ Len(Games) = 2
    /\ Inserted(calls[2]) > 0
    /\ Inserted(calls[3]) > 0
    /\ PlayerStats[Len(PlayerStats)].game_id = Games[1].id
    /\ Games[1].box_score_url = Some(calls[3].url)

(***************************************************************************)
(* Properties of the award tables.                                         *)
(***************************************************************************)
AwardsOpen == pc = "awards_db"

\* The natural key of each award table.
NaturalKey ==
    [player_of_the_month |-> {"player_name", "month_numeric", "year_numeric", "conference", "league_name"},
     rookie_of_the_month |-> {"player_name", "month_numeric", "year_numeric", "conference", "league_name"},
     coach_of_the_month |-> {"coach_name", "team_abbreviation", "month_numeric", "year_numeric", "conference", "league_name"},
     player_of_the_week |-> {"player_name", "week_start_date", "week_end_date", "conference", "league_name"}]

KeyOf(t, row) == [c \in NaturalKey[t] |-> row[c]]

\* C18 as stated: after any sequence of award scrape runs every award table
\* holds at most one row per natural key, whether the conference of the key
\* is present or absent.
C18_OneRowPerNaturalKey ==
    AwardsOpen =>
        \A t \in DOMAIN NaturalKey : \A i, j \in 1..Len(db[t].rows) :
            i # j => KeyOf(t, db[t].rows[i]) # KeyOf(t, db[t].rows[j])

\* Two runs of the player-of-the-month scrape over a row without a
\* conference: the second run reported one insertion, and the table holds two
\* rows with the same natural key, the conference absent.
C18_Witness ==
    /\ AwardsOpen
    /\ Len(calls) = 2
    /\ calls[2].op = "scrape_monthly_award"
    /\ calls[2].ret = 1
    /\ Len(db["player_of_the_month"].rows) = 2
    /\ db["player_of_the_month"].rows[1].conference = None
    /\ KeyOf("player_of_the_month", db["player_of_the_month"].rows[1])
         = KeyOf("player_of_the_month", db["player_of_the_month"].rows[2])

(***************************************************************************)
(* Properties of repeated calls of the two page parsers.                   *)
(***************************************************************************)
BoxRerun == pc = "box_again"
DailyRerun == pc = "daily_again"

CountFields ==
    {"fg", "fga", "fg3", "fg3a", "ft", "fta", "orb", "drb", "trb", "ast", "stl", "blk",
     "tov", "pf", "pts"}

\* C22 as stated: in every returned game record the away and home scores are
\* non-negative, and so is every count of every stat line that is not absent.
C22_NonNegativeIntegers ==
    Accepted =>
        /\ Game.away_score >= 0
        /\ Game.home_score >= 0
        /\ \A i \in 1..Len(Game.players) : \A f \in CountFields :
              Game.players[i][f] # None => Game.players[i][f][1] >= 0

\* A page whose first score text reads "-5" was accepted with an away score
\* of -5.
C22_Witness ==
    /\ Accepted
    /\ Scorebox.scores[1] = <<"-", "5">>
    /\ Game.away_score = 0 - 5

\* The rows of the basic stats tables, in document order.
Rows == FlattenRows(soup[1].tables)

\* The diagnostics that name player p.
DiagnosticsOf(p) == SelectSeq(box_result.log, LAMBDA e : e.player = p)

\* The warnings that name stat f and player p.
WarningsOf(f, p) == SelectSeq(box_result.log, LAMBDA e : e.level = "warning" /\ e.stat = f /\ e.player = p)

\* C23 as stated: a linked player all of whose rows fail the participation
\* check (minutes missing, empty or a marker) is named by no diagnostic, and
\* a missing or non-numeric count or percentage cell of a participating
\* player is named by a warning.
C23_SkipIsSilent ==
    Accepted =>
        /\ \A j \in 1..Len(Rows) :
              (/\ HasPlayerLink(Rows[j].row)
               /\ \A k \in 1..Len(Rows) :
                     (HasPlayerLink(Rows[k].row) /\ Rows[k].row.th[1].a[1] = Rows[j].row.th[1].a[1])
                         => MinutesExcluded(Rows[k].row))
                  => DiagnosticsOf(Rows[j].row.th[1].a[1]) = <<>>
        /\ \A i \in 1..Len(EmittingRows) : \A f \in NumericFields :
              (EmittingRows[i].row.cells[f] = None \/ NonNumericText(EmittingRows[i].row.cells[f]))
                  => WarningsOf(f, EmittingRows[i].row.th[1].a[1]) # <<>>

\* A linked player whose row has no minutes cell was skipped: no stat line,
\* and a warning that names the minutes field and the player.
C23_Witness ==
    /\ Accepted
    /\ Len(Rows) = 1
    /\ HasPlayerLink(Rows[1].row)
    /\ Rows[1].row.cells["mp"] = None
    /\ Game.players = <<>>
    /\ WarningsOf("mp", Rows[1].row.th[1].a[1]) # <<>>

\* The cell of a count or percentage field is missing, empty or non-numeric.
Defective(f, cell) ==
    /\ f \in NumericFields
    /\ (cell = None \/ Strip(cell[1]) = <<>> \/ NonNumericText(cell))

\* The row with every defective cell replaced by a well-formed one.
WithoutDefects(r) ==
    [r EXCEPT !.cells = [f \in DOMAIN r.cells |->
        IF ~Defective(f, r.cells[f]) THEN r.cells[f]
        ELSE IF f \in CountFields THEN Some(<<"9">>) ELSE Some(<<".", "4", "2", "9">>)]]

\* The document with every defective cell of every row replaced.
DefectFree ==
    [soup[1] EXCEPT !.tables = [t \in 1..Len(soup[1].tables) |->
        IF soup[1].tables[t].tbody = None THEN soup[1].tables[t]
        ELSE [soup[1].tables[t] EXCEPT !.tbody =
                 Some([j \in 1..Len(soup[1].tables[t].tbody[1]) |->
                          WithoutDefects(soup[1].tables[t].tbody[1][j])])]]]

\* The outcome for the document without the defects.
WithoutDefect == ParseBoxScorePage(Some(DefectFree), box_score_url)

\* The fields of the emitted stat lines whose cell is defective.
DefectiveFields ==
    {<<i, f>> \in (1..Len(EmittingRows)) \X NumericFields :
        Defective(f, EmittingRows[i].row.cells[f])}

HardRejected(call) ==
    \/ call.soup = None
    \/ call.soup[1].scorebox = None
    \/ Len(call.soup[1].scorebox[1].strongs) < 2
    \/ \E i \in 1..2 : TeamName(call.soup[1].scorebox[1].strongs[i]) = ""
    \/ Len(call.soup[1].scorebox[1].scores) < 2
    \/ \E i \in 1..2 : ~IntegerText(call.soup[1].scorebox[1].scores[i])

\* The call that the step has added to the history.
LastCall == calls'[Len(calls')]

\* C25: a call of process_single_box_score for a hard-rejected page returns
\* (False, 0) without raising, so that the loop over the day's pages goes on,
\* and leaves the games and player_stats tables as they were.
C25_RejectedPageStoresNothing ==
    [][GamesOpen /\ calls' # calls /\ HardRejected(LastCall) =>
          /\ LastCall.exc = NoException
          /\ LastCall.ret = <<FALSE, 0>>
          /\ db' = db]_vars

\* A page without a score box was delivered after one stored page and before
\* another: it returned (False, 0), and the tables hold the rows of the two
\* stored pages only.
C25_Witness ==
    /\ GamesOpen
    /\ Len(calls) = 3
    /\ ~HardRejected(calls[1])
    /\ calls[2].soup # None /\ calls[2].soup[1].scorebox = None
    /\ calls[2].ret = <<FALSE, 0>>
    /\ ~HardRejected(calls[3])
    /\ calls[3].url # calls[1].url
    /\ calls[3].ret[1]
    /\ Len(Games) = 2
    /\ Len(PlayerStats) = Inserted(calls[1]) + Inserted(calls[3])
    /\ Inserted(calls[3]) > 0

(***************************************************************************)
(* Properties of the award scrapers.                                       *)
(***************************************************************************)
\* scrape_player_of_the_week has run once, on a new store, and had a table.
WeeklyRanOnce ==
    /\ AwardsOpen
    /\ Len(calls) = 1
    /\ calls[1].op = "scrape_player_of_the_week"
    /\ award_table # None

WeekRows == award_table[1]

\* The row is a season header, and the start year of its label, if it parses.
IsSeasonHeader(r) == ~r.colhead /\ r.season_header # None /\ Strip(r.season_header[1]) # <<>>
HeaderYear(r) == PyInt(SubSeq(Strip(r.season_header[1]), 1, (IF FindChar(Strip(r.season_header[1]), {"-"}, 1) = 0 THEN Len(Strip(r.season_header[1])) ELSE FindChar(Strip(r.season_header[1]), {"-"}, 1) - 1)))

\* The season carried after the first k rows: the start year of the most
\* recent season header whose label parsed.
RECURSIVE Carried(_)
Carried(k) ==
    IF k = 0 THEN None
    ELSE IF IsSeasonHeader(WeekRows[k]) /\ HeaderYear(WeekRows[k]) # None THEN HeaderYear(WeekRows[k])
    ELSE Carried(k - 1)

IsDataRow(r) == ~r.colhead /\ ~IsSeasonHeader(r) /\ Len(r.cells) >= 5

\* The start year of the season written in the row's own first cell, if any.
OwnYear(r) ==
    IF TwoNumericParts(Strip(r.cells[1].text)) THEN Some(StartingYear(Strip(r.cells[1].text)))
    ELSE None

\* No season is written in the first cell: it holds letters only.
NoOwnSeason(r) == \A i \in 1..Len(r.cells[1].text) : r.cells[1].text[i] \notin Digits \cup {SuperscriptTwo}

\* The season that data row k is resolved with.
ResolvedYear(k) == IF OwnYear(WeekRows[k]) # None THEN OwnYear(WeekRows[k]) ELSE Carried(k - 1)

\* The cells of data row k after its season cell, if it has one.
DataCells(k) == IF OwnYear(WeekRows[k]) # None THEN Tail(WeekRows[k].cells) ELSE WeekRows[k].cells

\* The dates of data row k under its resolved season.
RowDates(k) == ParseWeekDateRange(Some(Strip(DataCells(k)[2].text)), ResolvedYear(k))

\* Data row k is stored: it has a season within the requested range and five
\* data cells, is an NBA row, and its week resolves.
RowStored(k) ==
    /\ IsDataRow(WeekRows[k])
    /\ ResolvedYear(k) # None
    /\ StartSeasonYear <= ResolvedYear(k)[1] /\ ResolvedYear(k)[1] <= EndSeasonYear
    /\ Len(DataCells(k)) >= 5
    /\ Strip(DataCells(k)[1].text) = <<"N", "B", "A">>
    /\ LET dates == RowDates(k) IN dates.start # None /\ dates.end # None

\* The numbers of the stored rows, in table order.
RECURSIVE StoredRows(_)
StoredRows(k) ==
    IF k = 0 THEN <<>>
    ELSE IF RowStored(k) THEN Append(StoredRows(k - 1), k) ELSE StoredRows(k - 1)

\* C26: after one run of scrape_player_of_the_week on a new store over rows
\* that carry either a season label or no season in their first cell, the
\* table holds one row for each data row that has a season within the range,
\* in table order, with the dates of its week in the season it is resolved
\* with: the season of its own first cell if it has one, else the start year
\* of the most recent season header whose label parsed; a row with neither
\* is not stored.
C26_SeasonCarriedForward ==
    (/\ WeeklyRanOnce
     /\ \A k \in 1..Len(WeekRows) :
           IsDataRow(WeekRows[k]) => OwnYear(WeekRows[k]) # None \/ NoOwnSeason(WeekRows[k]))
        => LET stored == StoredRows(Len(WeekRows))
           IN /\ calls[1].ret = Len(stored)
              /\ Len(db["player_of_the_week"].rows) = Len(stored)
              /\ \A i \in 1..Len(stored) :
                    /\ db["player_of_the_week"].rows[i].week_start_date = RowDates(stored[i]).start
                    /\ db["player_of_the_week"].rows[i].week_end_date = RowDates(stored[i]).end
                    /\ db["player_of_the_week"].rows[i].player_name = Some(Strip(DataCells(stored[i])[3].text))

\* A table with the header 2022-23, a row with the season 2023-24 in its own
\* first cell and a row without: the first is stored in October 2023 and the
\* second in October 2022.
C26_Witness ==
    /\ WeeklyRanOnce
    /\ Len(WeekRows) = 3
    /\ IsSeasonHeader(WeekRows[1])
    /\ OwnYear(WeekRows[2]) = Some(2023)
    /\ Carried(2) = Some(2022)
    /\ Len(db["player_of_the_week"].rows) = 2
    /\ db["player_of_the_week"].rows[1].week_start_date = Some(<<"2", "0", "2", "3", "-", "1", "0", "-", "2", "4">>)
    /\ db["player_of_the_week"].rows[2].week_start_date = Some(<<"2", "0", "2", "2", "-", "1", "0", "-", "2", "4">>)

\* The season, month and name of a row of a monthly award table.
SeasonLabel(r) == Strip(r.cells[1].text)
MonthOf(r) == MonthNumber(RemoveDots(Strip(r.cells[5].text)))
NameOf(cell) == IF cell.a # None THEN Strip(cell.a[1]) ELSE Strip(cell.text)

\* The row of a monthly award table is valid, is an NBA row and lies within
\* the requested season range: its month and year resolve.
MonthlyValid(r) ==
    /\ ~r.colhead
    /\ Len(r.cells) >= 6
    /\ TwoNumericParts(SeasonLabel(r))
    /\ StartSeasonYear <= StartingYear(SeasonLabel(r)) /\ StartingYear(SeasonLabel(r)) <= EndSeasonYear
    /\ MonthOf(r) > 0
    /\ Strip(r.cells[2].text) = <<"N", "B", "A">>

\* The stored row is the award of the row of the monthly table.
IsMonthlyAwardOf(stored, r, name_field) ==
    /\ stored[name_field] = Some(NameOf(r.cells[3]))
    /\ stored.month_numeric = Some(MonthOf(r))
    /\ stored.year_numeric = Some(IF MonthOf(r) >= 8 THEN StartingYear(SeasonLabel(r)) ELSE StartingYear(SeasonLabel(r)) + 1)

\* The stored row is the award of row k of the weekly table.
IsWeeklyAwardOf(stored, k) ==
    /\ stored.player_name = Some(NameOf(DataCells(k)[3]))
    /\ LET dates == RowDates(k)
       IN stored.week_start_date = dates.start /\ stored.week_end_date = dates.end

\* Row k of the weekly table is valid, is an NBA row and lies within the
\* requested season range: its season and its week resolve.
WeeklyValid(k) ==
    /\ IsDataRow(WeekRows[k])
    /\ OwnYear(WeekRows[k]) # None \/ NoOwnSeason(WeekRows[k])
    /\ RowStored(k)

\* The table of the store that the last call wrote to.
AwardTable == db[calls[Len(calls)].award_type].rows

\* The rows of the table handed to the last call.
PageRows == IF award_table = None THEN <<>> ELSE award_table[1]

\* The rows that the last call appended: as many as it returned.
Appended == (Len(AwardTable) - calls[Len(calls)].ret + 1)..Len(AwardTable)

\* The last call was scrape_monthly_award: every valid row of its table has
\* its award in the store, and every award it appended is that of a valid row.
MonthlyStored ==
    LET name_field == IF calls[Len(calls)].award_type = "coach_of_the_month" THEN "coach_name" ELSE "player_name"
    IN /\ \A k \in 1..Len(PageRows) :
             MonthlyValid(PageRows[k]) =>
                 \E i \in 1..Len(AwardTable) : IsMonthlyAwardOf(AwardTable[i], PageRows[k], name_field)
       /\ \A i \in Appended :
             \E k \in 1..Len(PageRows) :
                 MonthlyValid(PageRows[k]) /\ IsMonthlyAwardOf(AwardTable[i], PageRows[k], name_field)

\* The stored row is the award of data row r when its cells are read from
\* offset on and its week is resolved in the season starting in year.
IsWeeklyAwardIn(stored, r, offset, year) ==
    /\ Len(r.cells) >= offset + 5
    /\ Strip(r.cells[offset + 1].text) = <<"N", "B", "A">>
    /\ stored.player_name = Some(NameOf(r.cells[offset + 3]))
    /\ stored.week_start_date # None
    /\ stored.week_end_date # None
    /\ LET week == ParseWeekDateRange(Some(Strip(r.cells[offset + 2].text)), Some(year))
       IN stored.week_start_date = week.start /\ stored.week_end_date = week.end

\* The same for scrape_player_of_the_week: an appended award is that of an
\* NBA row whose week resolves in a season of the requested range.
WeeklyStored ==
    /\ \A k \in 1..Len(PageRows) :
          WeeklyValid(k) => \E i \in 1..Len(AwardTable) : IsWeeklyAwardOf(AwardTable[i], k)
    /\ \A i \in Appended :
          \E k \in 1..Len(PageRows) : \E offset \in {0, 1} : \E year \in StartSeasonYear..EndSeasonYear :
              IsDataRow(PageRows[k]) /\ IsWeeklyAwardIn(AwardTable[i], PageRows[k], offset, year)

\* The sum of the numbers that the first k calls for award table t returned.
RECURSIVE ReturnedFor(_, _)
ReturnedFor(t, k) ==
    IF k = 0 THEN 0
    ELSE ReturnedFor(t, k - 1) + (IF calls[k].award_type = t THEN calls[k].ret ELSE 0)

\* C27: after any runs of scrape_monthly_award and scrape_player_of_the_week
\* every award table holds as many rows as the runs for it returned; the
\* award of every valid NBA row within the season range of the table last
\* scraped is in the store, whatever rows precede it, and every row the last
\* run appended is the award of such a row, so that a row whose month, year
\* or week does not resolve stores nothing.
C27_UnresolvedRowSkipped ==
    AwardsOpen /\ calls # <<>> =>
        /\ calls[Len(calls)].exc = NoException
        /\ \A t \in DOMAIN NaturalKey : Len(db[t].rows) = ReturnedFor(t, Len(calls))
        /\ IF calls[Len(calls)].op = "scrape_monthly_award" THEN MonthlyStored ELSE WeeklyStored

\* A monthly table with an unknown month, an unreadable season and a valid
\* row was scraped twice: the first run stored and returned one row, the
\* second none.
C27_Witness ==
    /\ AwardsOpen
    /\ Len(calls) = 2
    /\ calls[1].op = "scrape_monthly_award" /\ calls[2].op = "scrape_monthly_award"
    /\ calls[1].award_type = calls[2].award_type
    /\ Len(PageRows) = 3
    /\ ~MonthlyValid(PageRows[1]) /\ ~MonthlyValid(PageRows[2]) /\ MonthlyValid(PageRows[3])
    /\ calls[1].ret = 1 /\ calls[1].errors = 1
    /\ calls[2].ret = 0
    /\ Len(AwardTable) = 1

(***************************************************************************)
(* The stat lines of parse_box_score_page.                                 *)
(***************************************************************************)
\* The page without its tables.
WithoutTables == ParseBoxScorePage(Some([soup[1] EXCEPT !.tables = <<>>]), box_score_url)

\* C28: the page is accepted exactly when it is accepted without its tables;
\* an accepted page has one stat line for each row of a basic stats table
\* with a body that has a linked player name and participating minutes, in
\* table order then row order, with the linked name, the stripped minutes and
\* the team abbreviation of the table's identifier; other rows and tables
\* give no line.
C28_OneLinePerParticipant ==
    Called /\ soup # None =>
        /\ box_result.exc = NoException
        /\ box_result.ret # None <=> WithoutTables.ret # None
        /\ Accepted =>
              /\ Len(Game.players) = Len(EmittingRows)
              /\ \A i \in 1..Len(EmittingRows) :
                    /\ Game.players[i].player_name = EmittingRows[i].row.th[1].a[1]
                    /\ Game.players[i].team = EmittingRows[i].team
                    /\ Game.players[i].mp = Strip(EmittingRows[i].row.cells["mp"][1])

\* Two tables of two rows, one of them a player who did not play: three stat
\* lines, the first of PHI and the last of MIL.
C28_Witness ==
    /\ Accepted
    /\ Len(Rows) = 4
    /\ Len(Game.players) = 3
    /\ ~EmitsLine(Rows[2])
    /\ Game.players[1].team = "PHI"
    /\ Game.players[2].team = "MIL"
    /\ Game.players[3].team = "MIL"
    /\ Game.players[2].player_name # Game.players[3].player_name

(***************************************************************************)
(* The dates of parse_week_date_range.                                     *)
(***************************************************************************)
\* The year of a date written YYYY-MM-DD, and the date as one number.
YearOf(d) == DecimalValue(SubSeq(d, 1, 4))
DateNumber(d) == (YearOf(d) * 100 + DecimalValue(SubSeq(d, 6, 7))) * 100 + DecimalValue(SubSeq(d, 9, 10))

\* C29 as stated: whenever parse_week_date_range returns a pair of dates for
\* season start year Y, the start date is not later than the end date and
\* both dates lie in calendar year Y or Y + 1.
C29_DatesWithinSeason ==
    WeekCalled /\ week_result.start # None /\ week_result.end # None =>
        /\ DateNumber(week_result.start[1]) <= DateNumber(week_result.end[1])
        /\ YearOf(week_result.start[1]) \in {effective_season_start_year[1], effective_season_start_year[1] + 1}
        /\ YearOf(week_result.end[1]) \in {effective_season_start_year[1], effective_season_start_year[1] + 1}

\* A same-month range whose second day precedes the first was returned as a
\* pair of dates: the start date is later than the end date.
C29_Witness ==
    /\ WeekCalled
    /\ week_result.start # None /\ week_result.end # None
    /\ DateNumber(week_result.start[1]) > DateNumber(week_result.end[1])
    /\ YearOf(week_result.start[1]) = YearOf(week_result.end[1])

(***************************************************************************)
(* Properties of the driver of get_games_data.py.                          *)
(***************************************************************************)
\* The calendar day that follows d.
Tomorrow(d) ==
    IF d.day < DaysInMonth(d.year, d.month) THEN [d EXCEPT !.day = @ + 1]
    ELSE IF d.month < 12 THEN [year |-> d.year, month |-> d.month + 1, day |-> 1]
    ELSE [year |-> d.year + 1, month |-> 1, day |-> 1]

\* A number that orders the dates as the calendar does.
DateKey(d) == d.year * 10000 + d.month * 100 + d.day

StartAfterEnd == DateKey(args.start_date) > DateKey(args.end_date)

\* The i-th returned number of the first k calls of process_date, summed.
RECURSIVE SumOfReturns(_, _)
SumOfReturns(k, i) == IF k = 0 THEN 0 ELSE SumOfReturns(k - 1, i) + calls[k].ret[i]

\* The box scores of the first k dates that were fetched and stored.
RECURSIVE GamesHandled(_)
GamesHandled(k) ==
    IF k = 0 THEN 0
    ELSE GamesHandled(k - 1)
           + Cardinality({j \in 1..Len(calls[k].box_score_urls) : calls[k].box_score_urls[j].soup # None})

\* The dates handed to process_date so far are the start date and the days
\* that follow it one by one, none of them after the end date.
DatesInOrder ==
    /\ Len(calls) > 0 => calls[1].date = args.start_date
    /\ \A k \in 1..(Len(calls) - 1) : calls[k + 1].date = Tomorrow(calls[k].date)
    /\ \A k \in 1..Len(calls) : DateKey(calls[k].date) <= DateKey(args.end_date)

\* A start date after the end date: no date is processed, the store is
\* untouched and main never reaches its loop.
Refused == StartAfterEnd => calls = <<>> /\ db = InitDb /\ pc \in {"main_ready", "main_exit"}

\* When main reports, the last date processed is the end date and the two
\* totals are the sums of what process_date returned, which are the box
\* scores handled and the stat rows now in the store.
TotalsReported ==
    pc = "main_done" =>
        /\ Len(calls) >= 1
        /\ calls[Len(calls)].date = args.end_date
        /\ total_games_processed = SumOfReturns(Len(calls), 1)
        /\ total_players_inserted = SumOfReturns(Len(calls), 2)
        /\ total_games_processed = GamesHandled(Len(calls))
        /\ total_players_inserted = Len(db["player_stats"].rows)

\* C30: main hands every date from the start date to the end date, both
\* included, to process_date exactly once and in ascending order (one date
\* when the two are equal) and then reports totals that are the sums over
\* those dates of the games processed and of the stat rows inserted; with a
\* start date after the end date it processes nothing and exits.
C30_EveryDateOnceInOrder ==
    /\ [](DatesInOrder /\ Refused /\ TotalsReported)
    /\ (~StartAfterEnd) ~> (pc = "main_done")
    /\ StartAfterEnd ~> (pc = "main_exit")

\* A run over three dates that crosses the turn of the year has ended with
\* games and stat rows stored.
C30_Witness ==
    /\ pc = "main_done"
    /\ Len(calls) = 3
    /\ calls[1].date.year < calls[3].date.year
    /\ total_games_processed >= 2
    /\ total_players_inserted >= 2
    /\ \E k \in 1..3 : calls[k].ret = <<0, 0>>

====
